---- MODULE Spec2Model ----
(***************************************************************************)
(* Verification model of the ADR_Toolbox mission routing engine            *)
(* (adr_toolbox/mission.py): the genome decoder Mission.__decode_routing,  *)
(* the mission simulator / fitness function Mission.__traverse_routes and  *)
(* its cost sampler, and of the genetic algorithm that drives them         *)
(* (adr_toolbox/optimize.py).                                              *)
(*                                                                         *)
(* Python lists are modelled as TLA+ sequences (1-based); a Python index i *)
(* is position i+1.                                                        *)
(***************************************************************************)
EXTENDS Integers, Sequences, FiniteSets, TLC

(***************************************************************************)
(* Bounds of the decoder specification.                                    *)
(***************************************************************************)
MaxVehicles == 3
MaxTargets == 3

\* Bound of the simulator specifications: calls of the fitness function made
\* one after another on one Mission.
MaxCalls == 2

\* Bounds of the sampler specification: samples per cost and conservatism.
MaxSamples == 2
MaxConservatism == 1

\* Bound of the optimizer specification: the greatest configured minimum
\* number of generations.  A run is followed for one generation more.
MaxNumGens == 2
MaxGenIter == MaxNumGens + 1

VARIABLES
    dec_pc,          \* position of the decoder run: "off", "input" or "decoded"
    ind,             \* the genome handed to __decode_routing
    num_vehicles,    \* number of vehicles handed to __decode_routing
    routes_shift,    \* the value __decode_routing returned
    scenario,        \* which of the Scenarios the Mission was constructed from
    mission,         \* the Mission object (self)
    frames,          \* per evaluator: the locals of its call of __traverse_routes
    calls,           \* number of calls of __traverse_routes begun so far
    optimizer,       \* the VehicleRouting object and the locals of optimize()
    sampler          \* one call of __calc_transfer_costs: its inputs and result

dec_vars == <<dec_pc, ind, num_vehicles, routes_shift>>
sim_vars == <<scenario, mission, frames, calls>>
opt_vars == <<optimizer, sampler>>

(***************************************************************************)
(* Generic sequence helpers.                                               *)
(***************************************************************************)
RECURSIVE PermsOf(_)
PermsOf(S) ==
    IF S = {} THEN {<<>>}
    ELSE UNION {{<<x>> \o p : p \in PermsOf(S \ {x})} : x \in S}

\* The genomes the optimizer produces: permutations of 0..V+T-1.
Genomes(V, T) == PermsOf(0..(V + T - 1))

\* list.index(v): the first position holding v
ListIndex(s, v) == CHOOSE p \in 1..Len(s) : s[p] = v /\ \A q \in 1..(p - 1) : s[q] # v

RECURSIVE Concat(_)
Concat(ss) == IF ss = <<>> THEN <<>> ELSE Head(ss) \o Concat(Tail(ss))

(***************************************************************************)
(* Mission.__decode_routing, step by step.                                 *)
(***************************************************************************)
\* start_ints = [x for x in range(num_vehicles)]
StartInts(nv) == 0..(nv - 1)

\* ind_shift = ind[ind.index(0):] + ind[:ind.index(0)]
IndShiftNoRotate(g) == g
IndShift(g) ==
    LET p == ListIndex(g, 0)
    IN SubSeq(g, p, Len(g)) \o SubSeq(g, 1, p - 1)

\* start_inds: the positions of ind_shift holding a starting integer, ascending
StartInds(shifted, nv) ==
    SelectSeq([p \in 1..Len(shifted) |-> p], LAMBDA p : shifted[p] \in StartInts(nv))

\* routes = [ind_shift[i:j] for i,j in zip(start_inds, start_inds[1:]+[None])]
SplitRoutes(shifted, nv) ==
    LET si == StartInds(shifted, nv)
    IN [k \in 1..Len(si) |->
            SubSeq(shifted, si[k],
                   IF k < Len(si) THEN si[k + 1] - 1 ELSE Len(shifted))]

\* sorted(routes, key=lambda x: x[0]): a stable sort on the leading value
RECURSIVE SortByHeadFrom(_, _)
SortByHeadFrom(done, rest) ==
    IF rest = <<>> THEN done
    ELSE SortByHeadFrom(
            \* stable: r goes after every element with a key <= its own
            LET r == Head(rest)
                before == SelectSeq(done, LAMBDA x : x[1] <= r[1])
                after == SelectSeq(done, LAMBDA x : x[1] > r[1])
            IN before \o <<r>> \o after,
            Tail(rest))

RoutesUnsorted(routes) == routes
RoutesSorted(routes) == SortByHeadFrom(<<>>, routes)

\* routes_shift.append([x-num_vehicles for x in route[1:]])
ShiftRouteKeepValues(route, nv) == Tail(route)
ShiftRoute(route, nv) == [p \in 1..(Len(route) - 1) |-> route[p + 1] - nv]

DecodeRouting(g, nv) ==
    LET sorted == RoutesSorted(SplitRoutes(IndShift(g), nv))
    IN [k \in 1..Len(sorted) |-> ShiftRoute(sorted[k], nv)]

(***************************************************************************)
(* Fixed-point arithmetic.  The program computes in floating point; the    *)
(* model computes the same formulas on integers with these units:          *)
(*   semi-major axis  km            inclination  degrees                   *)
(*   RAAN             1/1000 degree time         days                      *)
(*   delta-v, speed   m/s           mass         0.1 kg                    *)
(*   thrust           mN            isp          s                         *)
(*   RAAN rate        1/1000 degree per day                                *)
(*   fitness          1/100000 (so the floor 0.00001 is 1)                 *)
(* Every quotient truncates.                                               *)
(***************************************************************************)
Abs(x) == IF x < 0 THEN -x ELSE x

\* The floating-point value nan.  A time or an angle is NAN or a number; a
\* sum with nan is nan and every comparison with nan is false.
NAN == -999999999
NanAdd(x, y) == IF x = NAN \/ y = NAN THEN NAN ELSE x + y
NanLess(x, y) == x # NAN /\ y # NAN /\ x < y

\* np.ceil(x / y) for x >= 0, y > 0
CeilDiv(x, y) == (x + y - 1) \div y

RECURSIVE ISqrtBetween(_, _, _)
ISqrtBetween(n, lo, hi) ==
    IF lo >= hi THEN lo
    ELSE LET mid == (lo + hi + 1) \div 2
         IN IF mid * mid <= n THEN ISqrtBetween(n, mid, hi)
            ELSE ISqrtBetween(n, lo, mid - 1)

\* np.sqrt, truncated
ISqrt(n) == ISqrtBetween(n, 0, 46340)

RECURSIVE SumSeq(_)
SumSeq(s) == IF s = <<>> THEN 0 ELSE Head(s) + SumSeq(Tail(s))

\* np.mean and np.std (population standard deviation) of a sample list
Mean(s) == SumSeq(s) \div Len(s)
StdAbout(s, m) ==
    ISqrt(SumSeq([p \in 1..Len(s) |-> (s[p] - m) * (s[p] - m)]) \div Len(s))
Std(s) == StdAbout(s, Mean(s))

(***************************************************************************)
(* Astrodynamic constants (mission.py lines 18-20).                        *)
(***************************************************************************)
MU_E == 398600
R_E == 6371
\* 1.5 * J2 * (180 / pi), in 1/100000
J2_RATE == 9304
\* one full revolution of RAAN, in 1/1000 degree
FULL_CIRCLE == 360000
\* seconds per day, days per year
DAY_SECONDS == 86400
YEAR_DAYS == 365
\* specific impulse separating the impulsive from the low-thrust model
ISP_SPLIT == 500
\* the fitness returned when nothing is remediated: 0.00001
FLOOR_FITNESS == 1
FITNESS_ONE == 100000

\* 1 - cos(x), x in 1/100 degree with 0 <= x <= 9000, in 1/1000000
\* (Bhaskara's rational approximation of the cosine)
Versine(xc) == (5 * xc * xc) \div ((324000000 + xc * xc) \div 1000000)

\* cos(deg), in 1/1000, for 0 <= deg <= 180
Cos1000(deg) ==
    IF deg <= 90 THEN 1000 - Versine(deg * 100) \div 1000
    ELSE -(1000 - Versine((180 - deg) * 100) \div 1000)

\* np.sqrt(MU_E / a): circular speed, m/s
CircVel(a) == ISqrt(((MU_E * 1000) \div a) * 1000)

\* np.sqrt(2 * MU_E / r - 2 * MU_E / (a_0 + a_f)): speed on the transfer
\* ellipse at radius r, m/s
TransferVel(r, a_0, a_f) ==
    ISqrt((((2 * MU_E * 1000) \div r) * (((a_0 + a_f - r) * 10000) \div (a_0 + a_f))) \div 10)

\* sqrt(v1^2 + v2^2 - 2 v1 v2 cos(theta)), theta in 1/100 degree; written as
\* sqrt((v1 - v2)^2 + 2 v1 v2 (1 - cos(theta))) to keep fixed-point precision
LawOfCosines(v1, v2, theta) ==
    ISqrt((v1 - v2) * (v1 - v2) + ((2 * v1 * v2) \div 1000000) * Versine(theta))

\* exp(x) for x >= 0 in 1/10000, by its power series; result in 1/10000
RECURSIVE ExpTerms(_, _, _, _)
ExpTerms(x, term, k, acc) ==
    IF term = 0 \/ k > 12 THEN acc
    ELSE LET next == (term * x) \div (10000 * k)
         IN ExpTerms(x, next, k + 1, acc + next)

Exp10000(x) == ExpTerms(x, 10000, 1, 10000)

\* mass * (1 - np.exp(-delta_v * 1000 / isp / 9.81)): ideal rocket equation,
\* delta_v in m/s; e is exp(delta_v / (isp * 9.81)) in 1/10000
BurnedFraction(mass, e) == (mass * (e - 10000)) \div e
RocketEquation(mass, delta_v, isp) ==
    BurnedFraction(mass, Exp10000((delta_v * 100000) \div ((isp * 981) \div 10)))

\* lines 836-837: delta_v * 1000 / thrust * (mass - 0.5 * prop_mass) seconds
LowThrustTime(delta_v, prop_mass, mass, thrust) ==
    <<delta_v, prop_mass, (delta_v * (2 * mass - prop_mass)) \div (thrust * 1728)>>

\* line 835: the propellant of the transfer
LowThrustBurn(delta_v, mass, isp, thrust) ==
    LowThrustTime(delta_v, RocketEquation(mass, delta_v, isp), mass, thrust)

\* Mission.__low_thrust_transfer (Edelbaum): <<delta_v, prop_mass, tof>>;
\* the angle is np.deg2rad(np.abs(inc_0 - inc_f)) * np.pi / 2
LowThrustTransfer(a_0, a_f, inc_0, inc_f, mass, isp, thrust) ==
    LowThrustBurn(LawOfCosines(CircVel(a_0), CircVel(a_f), Abs(inc_0 - inc_f) * 157),
                  mass, isp, thrust)

\* lines 797-806: the plane change rides on the slower of the two burns
ImpulseDeltaV(v_a_1, v_a_2, v_b_1, v_b_2, theta, raising) ==
    IF raising THEN Abs(v_a_1 - v_a_2) + LawOfCosines(v_b_1, v_b_2, theta)
    ELSE LawOfCosines(v_a_1, v_a_2, theta) + Abs(v_b_1 - v_b_2)

\* lines 808-812: propellant, and np.pi * np.sqrt(a_t**3 / MU_E) seconds
ImpulseBurn(delta_v, a_t, mass, isp) ==
    <<delta_v, RocketEquation(mass, delta_v, isp),
      ((3142 * a_t) \div CircVel(a_t)) \div DAY_SECONDS>>

\* Mission.__impulse_transfer (Hohmann): <<delta_v, prop_mass, tof>>
ImpulseTransfer(a_0, a_f, inc_0, inc_f, mass, isp) ==
    ImpulseBurn(ImpulseDeltaV(CircVel(a_0), TransferVel(a_0, a_0, a_f),
                              TransferVel(a_f, a_0, a_f), CircVel(a_f),
                              Abs(inc_0 - inc_f) * 100, a_f > a_0),
                (a_0 + a_f) \div 2, mass, isp)

\* Mission.calc_raan_dot: nodal precession rate, 1/1000 degree per day
CalcRaanDot(smj_ax, inc) ==
    LET ratio2 == (((R_E * 1000) \div smj_ax) * ((R_E * 1000) \div smj_ax)) \div 1000
        \* np.sqrt(MU_E / smj_ax**3), in 1/1000 rad per day
        mean_motion == (CircVel(smj_ax) * DAY_SECONDS) \div smj_ax
        scaled == (((ratio2 * mean_motion) \div 1000) * Abs(Cos1000(inc))) \div 1000
        magnitude == (scaled * J2_RATE) \div 100000
    IN IF Cos1000(inc) >= 0 THEN -magnitude ELSE magnitude

(***************************************************************************)
(* Monte-Carlo sampling.  The draws are held fixed for a Mission: sample n *)
(* of every sampling loop takes each random.uniform(m - u, m + u) at       *)
(* m + draws[n] * u, with draws[n] in {-1, 0, 1} (lower end, centre, upper *)
(* end of the interval).                                                   *)
(***************************************************************************)
\* a draw that pays no regard to the width of the interval
UniformUnitWidth(mean, unc, draw) == mean + draw

Uniform(mean, unc, draw) == IF mean = NAN THEN NAN ELSE mean + draw * unc

\* np.mean(xs) + np.std(xs) * conservatism
Conservative(xs, conservatism) ==
    IF \E p \in 1..Len(xs) : xs[p] = NAN THEN NAN
    ELSE Mean(xs) + Std(xs) * conservatism

\* One pass of the sampling loop of Mission.__calc_transfer_costs.  A specific
\* impulse of exactly 500 s selects neither model: delta_v is unbound.
\* lines 510-519: 'if isp > 500' picks the low-thrust model, a second
\* 'if isp < 500' the impulsive one; no branch assigns the triple otherwise
TransferModel(isp) ==
    IF isp > ISP_SPLIT THEN "low_thrust"
    ELSE IF isp < ISP_SPLIT THEN "impulse"
    ELSE "none"

TransferSample(m, draw, orbit1_mean, orbit1_unc, orbit2_mean, orbit2_unc, mass, thrust, isp) ==
    LET a_0 == Uniform(orbit1_mean[1], orbit1_unc[1] * m.conservatism, draw)
        a_f == Uniform(orbit2_mean[1], orbit2_unc[1] * m.conservatism, draw)
        inc_0 == Uniform(orbit1_mean[2], orbit1_unc[2] * m.conservatism, draw)
        inc_f == Uniform(orbit2_mean[2], orbit2_unc[2] * m.conservatism, draw)
    IN IF TransferModel(isp) = "low_thrust"
       THEN LowThrustTransfer(a_0, a_f, inc_0, inc_f, mass, isp, thrust)
       ELSE ImpulseTransfer(a_0, a_f, inc_0, inc_f, mass, isp)

\* lines 489-521: the sampling loop, n passes appended to the sample lists
RECURSIVE TransferMonte(_, _, _, _, _, _, _, _, _)
TransferMonte(n, m, orbit1_mean, orbit1_unc, orbit2_mean, orbit2_unc, mass, thrust, isp) ==
    IF n = 0 THEN <<>>
    ELSE Append(TransferMonte(n - 1, m, orbit1_mean, orbit1_unc, orbit2_mean, orbit2_unc,
                              mass, thrust, isp),
                TransferSample(m, m.draws[n], orbit1_mean, orbit1_unc,
                               orbit2_mean, orbit2_unc, mass, thrust, isp))

Column(monte, j) == [n \in 1..Len(monte) |-> monte[n][j]]

\* lines 525-531: mean plus conservatism standard deviations of each list
TransferAggregate(monte, conservatism) ==
    [exc |-> "none",
     transfer_dv |-> Conservative(Column(monte, 1), conservatism),
     prop_mass |-> Conservative(Column(monte, 2), conservatism),
     transfer_tof |-> Conservative(Column(monte, 3), conservatism)]

\* Mission.__calc_transfer_costs: [exc, transfer_dv, prop_mass, transfer_tof]
CalcTransferCosts(m, orbit1_mean, orbit1_unc, orbit2_mean, orbit2_unc, mass, thrust, isp) ==
    IF TransferModel(isp) = "none" /\ m.monte_carlo_size > 0
    THEN [exc |-> "UnboundLocalError", transfer_dv |-> 0, prop_mass |-> 0, transfer_tof |-> 0]
    ELSE TransferAggregate(
            TransferMonte(m.monte_carlo_size, m, orbit1_mean, orbit1_unc,
                          orbit2_mean, orbit2_unc, mass, thrust, isp),
            m.conservatism)

\* raan_0 > raan_f == raan_dot_0 > raan_dot_f: a Python chained comparison,
\* (raan_0 > raan_f) and (raan_f == raan_dot_0) and (raan_dot_0 > raan_dot_f).
\* The middle clause compares an angle in degrees with a rate in degrees per
\* second.
LappingBranch(raan_0, raan_f, raan_dot_0, raan_dot_f) ==
    /\ raan_0 > raan_f
    /\ raan_dot_0 % DAY_SECONDS = 0
    /\ raan_f = raan_dot_0 \div DAY_SECONDS
    /\ raan_dot_0 > raan_dot_f

\* lines 580-595: the wait of one sample from its angles and precession
\* rates, in days.  With equal precession rates the division is a numpy
\* division by 0.0: the sample is inf, or nan when the numerator is 0 too,
\* and no exception is raised.  np.std of a list holding inf is nan, so the
\* aggregate of line 599 is nan in both cases and the sample stands as NAN.
RaanDelta(raan_0, raan_f, raan_dot_0, raan_dot_f, raan_offset) ==
    IF LappingBranch(raan_0, raan_f, raan_dot_0, raan_dot_f)
    THEN Abs(FULL_CIRCLE - Abs(raan_0 - raan_f) - raan_offset)
    ELSE Abs(Abs(raan_0 - raan_f) - raan_offset)

RaanWaitOf(raan_0, raan_f, raan_dot_0, raan_dot_tr, raan_dot_f, transfer_tof) ==
    IF raan_0 = NAN \/ raan_f = NAN \/ raan_dot_0 = raan_dot_f THEN NAN
    ELSE RaanDelta(raan_0, raan_f, raan_dot_0, raan_dot_f,
                   Abs(raan_dot_tr - raan_dot_f) * transfer_tof)
            \div Abs(raan_dot_0 - raan_dot_f)

\* One pass of the sampling loop of Mission.__calc_raan_wait
RaanWaitSample(m, draw, orbit1_mean, orbit1_unc, orbit2_mean, orbit2_unc, transfer_tof) ==
    LET a_0 == Uniform(orbit1_mean[1], orbit1_unc[1] * m.conservatism, draw)
        a_f == Uniform(orbit2_mean[1], orbit2_unc[1] * m.conservatism, draw)
        inc_0 == Uniform(orbit1_mean[2], orbit1_unc[2] * m.conservatism, draw)
        inc_f == Uniform(orbit2_mean[2], orbit2_unc[2] * m.conservatism, draw)
        raan_0 == Uniform(orbit1_mean[3], orbit1_unc[3] * m.conservatism, draw)
        raan_f == Uniform(orbit2_mean[3], orbit2_unc[3] * m.conservatism, draw)
    IN RaanWaitOf(raan_0, raan_f, CalcRaanDot(a_0, inc_0),
                  CalcRaanDot((a_0 + a_f) \div 2, (inc_0 + inc_f) \div 2),
                  CalcRaanDot(a_f, inc_f), transfer_tof)

\* lines 559-597: the sampling loop, n passes appended to the sample list
RECURSIVE RaanMonte(_, _, _, _, _, _, _)
RaanMonte(n, m, orbit1_mean, orbit1_unc, orbit2_mean, orbit2_unc, transfer_tof) ==
    IF n = 0 THEN <<>>
    ELSE Append(RaanMonte(n - 1, m, orbit1_mean, orbit1_unc, orbit2_mean, orbit2_unc,
                          transfer_tof),
                RaanWaitSample(m, m.draws[n], orbit1_mean, orbit1_unc,
                               orbit2_mean, orbit2_unc, transfer_tof))

\* Mission.__calc_raan_wait
CalcRaanWait(m, orbit1_mean, orbit1_unc, orbit2_mean, orbit2_unc, transfer_tof) ==
    Conservative(RaanMonte(m.monte_carlo_size, m, orbit1_mean, orbit1_unc,
                           orbit2_mean, orbit2_unc, transfer_tof),
                 m.conservatism)

\* The candidate disposal altitudes of Mission.__calc_alt_drop, km
AltCandidates == <<0, 100, 200, 300, 400, 500>>

\* lines 609-618: 'if isp < 500' the impulsive model, 'else' the low-thrust
AltDropModel(isp) == IF isp < ISP_SPLIT THEN "impulse" ELSE "low_thrust"

AltDropTransfer(a_0, a_f, mass, thrust, isp) ==
    IF AltDropModel(isp) = "impulse" THEN ImpulseTransfer(a_0, a_f, 0, 0, mass, isp)
    ELSE LowThrustTransfer(a_0, a_f, 0, 0, mass, isp, thrust)

\* The for loop of Mission.__calc_alt_drop from candidate c on: the first
\* candidate needing less than prop_mass, or else the last candidate
RECURSIVE AltDropFrom(_, _, _, _, _, _)
AltDropPick(c, tr, a_0, mass, prop_mass, thrust, isp) ==
    IF tr[2] < prop_mass \/ c = Len(AltCandidates)
    THEN [alt_drop |-> a_0 - (R_E + AltCandidates[c]), tof |-> tr[3], d_v |-> tr[1]]
    ELSE AltDropFrom(c + 1, a_0, mass, prop_mass, thrust, isp)

AltDropFrom(c, a_0, mass, prop_mass, thrust, isp) ==
    AltDropPick(c, AltDropTransfer(a_0, R_E + AltCandidates[c], mass, thrust, isp),
                a_0, mass, prop_mass, thrust, isp)

\* Mission.__calc_alt_drop
CalcAltDrop(orbit1, mass, prop_mass, thrust, isp) ==
    AltDropFrom(1, orbit1[1], mass, prop_mass, thrust, isp)

\* Mission.__propagate_servicer_raan
PropagateServicerRaan(a_km, inc_deg, raan_deg, tof) ==
    IF raan_deg = NAN \/ tof = NAN THEN NAN
    ELSE (raan_deg + CalcRaanDot(a_km, inc_deg) * tof) % FULL_CIRCLE

(***************************************************************************)
(* The objects of a Mission.  A Mission object is the record m ("self");   *)
(* the local variables of one call of __traverse_routes are the record f.  *)
(***************************************************************************)
\* None, where the program logs None for a captured / released index
NONE == -1

\* Spacecraft.__init__ (pmf in percent)
Spacecraft(name, wet_mass, pmf, thrust, isp) ==
    [name |-> name, wet_mass |-> wet_mass,
     dry_mass |-> (wet_mass * (100 - pmf)) \div 100,
     prop_mass |-> (wet_mass * pmf) \div 100,
     thrust |-> thrust, isp |-> isp]

\* Shuttle.__init__
Shuttle(name, wet_mass, pmf, thrust, isp, a_0, inc_0, raan_0, drop_off_alt, docking_time, docking_dv, num_refuels) ==
    [kind |-> "Shuttle", a_0 |-> a_0, inc_0 |-> inc_0, raan_0 |-> raan_0,
     drop_off_alt |-> drop_off_alt, raan_sync_alt |-> 0,
     docking_time |-> docking_time, docking_dv |-> docking_dv,
     num_refuels |-> num_refuels, modules |-> <<>>]
        @@ Spacecraft(name, wet_mass, pmf, thrust, isp)

\* Picker.__init__
Picker(name, wet_mass, pmf, thrust, isp, a_0, inc_0, raan_0, docking_time, docking_dv) ==
    [kind |-> "Picker", a_0 |-> a_0, inc_0 |-> inc_0, raan_0 |-> raan_0,
     drop_off_alt |-> 0, raan_sync_alt |-> 0,
     docking_time |-> docking_time, docking_dv |-> docking_dv,
     num_refuels |-> 0, modules |-> <<>>]
        @@ Spacecraft(name, wet_mass, pmf, thrust, isp)

\* Mothership.__init__
Mothership(name, wet_mass, pmf, thrust, isp, a_0, inc_0, raan_0, raan_sync_alt, docking_time, docking_dv, num_refuels, modules) ==
    [kind |-> "Mothership", a_0 |-> a_0, inc_0 |-> inc_0, raan_0 |-> raan_0,
     drop_off_alt |-> 0, raan_sync_alt |-> raan_sync_alt,
     docking_time |-> docking_time, docking_dv |-> docking_dv,
     num_refuels |-> num_refuels, modules |-> modules]
        @@ Spacecraft(name, wet_mass, pmf, thrust, isp)

\* Sat: the attributes of a target the simulator reads
Sat(a, inc, raan, a_unc, inc_unc, raan_unc, mass, score, country) ==
    [orbit_mean |-> <<a, inc, raan>>, orbit_unc |-> <<a_unc, inc_unc, raan_unc>>,
     mass |-> mass, score |-> score, country |-> country]

IsPicker(servicer) == servicer.kind = "Picker"
IsShuttle(servicer) == servicer.kind = "Shuttle"
IsMothership(servicer) == servicer.kind = "Mothership"

SeqToSet(s) == {s[p] : p \in 1..Len(s)}

\* the keys __setup_log creates: every servicer and every Mothership module
LogNames(servicers) ==
    {servicers[k].name : k \in 1..Len(servicers)}
        \cup UNION {{servicers[k].modules[j].name : j \in 1..Len(servicers[k].modules)} :
                        k \in {k \in 1..Len(servicers) : IsMothership(servicers[k])}}

EmptyRawMetrics ==
    [risk_remediated |-> 0, total_tof |-> 0, max_tof |-> 0, refuel_mass |-> 0]

\* Mission.__init__
MissionInit(targets, servicers, weights, year_limit, conservatism, monte_carlo_size, draws, no_route) ==
    [targets |-> targets,
     target_raans |-> <<>>,
     max_score |-> SumSeq([t \in 1..Len(targets) |-> targets[t].score]),
     max_countries |-> Cardinality({targets[t].country : t \in 1..Len(targets)}),
     servicers |-> servicers,
     weights |-> weights,
     year_limit |-> year_limit,
     data_log |-> [n \in {} |-> <<>>],
     monte_carlo_size |-> monte_carlo_size,
     draws |-> draws,
     conservatism |-> conservatism,
     no_route |-> no_route,
     vehicle_used |-> <<>>,
     vehicle_mass |-> 0,
     max_veh_mass |->
        SumSeq([k \in 1..Len(servicers) |->
                   servicers[k].wet_mass
                     + (IF IsMothership(servicers[k])
                        THEN servicers[k].modules[1].wet_mass * Len(servicers[k].modules)
                        ELSE 0)]),
     raw_metrics |-> EmptyRawMetrics]

\* Mission.__setup_log
SetupLog(m) == [m EXCEPT !.data_log = [n \in LogNames(m.servicers) |-> <<>>]]

\* Mission.__logging_data
LoggingData(m, servicer_name, tof, capture, release, score, mass, delta_v, num_refuels, a_km, inc_deg, raan_deg) ==
    LET log == m.data_log[servicer_name]
        previous_time == IF Len(log) = 0 THEN 0 ELSE log[Len(log)].time
    IN [m EXCEPT !.data_log[servicer_name] =
            Append(log, [time |-> NanAdd(previous_time, tof), captured |-> capture,
                         released |-> release, score |-> score, prop_mass |-> mass,
                         delta_v |-> delta_v, refuels |-> num_refuels,
                         a |-> a_km, inc |-> inc_deg, raan |-> raan_deg])]

\* Mission.__setup_target_raans: appends, the list is never cleared
SetupTargetRaans(m) ==
    [m EXCEPT !.target_raans =
        m.target_raans \o [t \in 1..Len(m.targets) |-> m.targets[t].orbit_mean[3]]]

\* Mission.__propagate_target_raans: entries 0..len(targets)-1, one by one
RECURSIVE PropagatedRaans(_, _, _, _)
PropagatedRaans(p, targets, target_raans, tof) ==
    IF p = 0 THEN target_raans
    ELSE [PropagatedRaans(p - 1, targets, target_raans, tof) EXCEPT
            ![p] = PropagateServicerRaan(targets[p].orbit_mean[1], targets[p].orbit_mean[2],
                                         @, tof)]

PropagateTargetRaans(m, tof) ==
    [m EXCEPT !.target_raans = PropagatedRaans(Len(m.targets), m.targets, @, tof)]

(***************************************************************************)
(* Mission.__traverse_routes, the fitness function.  One call is walked in *)
(* steps; f.pc is the position of the call:                                *)
(*   "idle"      not called yet                                            *)
(*   "servicer"  at the head of the loop over servicers (line 152)         *)
(*   "route"     at the head of the loop over the route (line 183)         *)
(*   "wrap"      after the route loop (line 382)                           *)
(*   "final"     after the loop over servicers (line 408)                  *)
(*   "done"      returned f.result        "raised"  raised f.exc           *)
(* Every step operator maps [m, f] to [m, f].                              *)
(***************************************************************************)
IdleFrame ==
    [pc |-> "idle", ind |-> <<>>, routes |-> <<>>, serv_ind |-> 0, i |-> 0,
     refuels |-> 0, usable_prop |-> 0, available_refuels |-> 0, refuels_used |-> 0,
     vehicle_risk_reduction |-> 0, vehicle_tof |-> 0, estimated_tof |-> 0,
     countries |-> <<>>, country_count |-> 0, module_masses |-> <<>>,
     serv_loc |-> <<0, 0, 0>>, score_list |-> <<>>, tof_list |-> <<>>,
     policy_list |-> <<>>, result |-> 0, exc |-> "none"]

Return(m, f, value) == [m |-> m, f |-> [f EXCEPT !.pc = "done", !.result = value]]
Raise(m, f, exc) == [m |-> m, f |-> [f EXCEPT !.pc = "raised", !.exc = exc]]

\* lines 130-133: if self.no_route is False, an empty route ends the call
EmptyRouteAllowed(m, routes) == FALSE
EmptyRouteForbidden(m, routes) ==
    m.no_route = FALSE /\ \E k \in 1..Len(routes) : Len(routes[k]) = 0

\* lines 130-150: the no_route check, the reset of the shared metrics
BeginWith(m, g, routes) ==
    IF EmptyRouteForbidden(m, routes)
    THEN Return(m, [IdleFrame EXCEPT !.ind = g, !.routes = routes], FLOOR_FITNESS)
    ELSE [m |-> SetupLog([m EXCEPT !.vehicle_used = [k \in 1..Len(m.servicers) |-> 0],
                                    !.vehicle_mass = 0,
                                    !.raw_metrics = EmptyRawMetrics]),
          f |-> [IdleFrame EXCEPT !.ind = g, !.routes = routes, !.pc = "servicer"]]

\* lines 127-150: decode, then the rest of the preamble
BeginOp(m, g) == BeginWith(m, g, DecodeRouting(g, Len(m.servicers)))

\* lines 153-180: the set-up of one servicer's walk
ServicerOp(m, f) ==
    LET servicer == m.servicers[f.serv_ind + 1]
        route == f.routes[f.serv_ind + 1]
        m1 == SetupTargetRaans(m)
        refuels == IF IsPicker(servicer) THEN 0 ELSE servicer.num_refuels
        f1 == [f EXCEPT
                !.refuels = refuels,
                !.available_refuels =
                    IF IsPicker(servicer) THEN @ ELSE @ + servicer.num_refuels,
                !.usable_prop = servicer.prop_mass,
                !.vehicle_risk_reduction = 0,
                !.vehicle_tof = 0,
                !.estimated_tof = 0,
                !.countries = <<>>,
                !.country_count = 0,
                !.module_masses =
                    IF IsMothership(servicer)
                    THEN [j \in 1..Len(servicer.modules) |-> servicer.modules[j].wet_mass]
                    ELSE <<0>>,
                !.serv_loc = <<servicer.a_0, servicer.inc_0, servicer.raan_0>>,
                !.i = 0,
                !.pc = IF Len(route) > 0 THEN "route" ELSE "wrap"]
    IN [m |-> LoggingData(m1, servicer.name, 0, NONE, NONE, 0, f1.usable_prop, 0,
                          refuels, f1.serv_loc[1], f1.serv_loc[2], f1.serv_loc[3]),
        f |-> f1]

\* continue: on to the next target of the route, if any
Continue(m, f) ==
    [m |-> m,
     f |-> [f EXCEPT !.i = @ + 1,
                     !.pc = IF f.i + 1 < Len(f.routes[f.serv_ind + 1])
                            THEN "route" ELSE "wrap"]]

\* break: leave the route loop
Break(m, f) == [m |-> m, f |-> [f EXCEPT !.pc = "wrap"]]

\* a skip that ends the route
SkipEndsRoute(m, f) == Break(m, f)

\* lines 209-211: the target is out of reach of a full tank, or the servicer
\* is a Picker short of propellant: continue
Skip(m, f) == Continue(m, f)

(***************************************************************************)
(* One pass of the route loop (lines 183-380), in its parts.  c is         *)
(* the pass's context: [servicer, t_ind, target, orbit2, orbit2_unc, cost, *)
(* raan_tof], the values the pass computes once and reads later.           *)
(***************************************************************************)
\* lines 361-380: elapsed time, target RAANs, credit, and the two breaks
PickerKeepsGoing(servicer) == FALSE
PickerIsDone(servicer) == IsPicker(servicer)

LegCredit(m, f, c, transfer_tof_2) ==
    LET vehicle_tof == NanAdd(f.vehicle_tof,
                              NanAdd(c.raan_tof, c.cost.transfer_tof
                                        + c.servicer.docking_time + transfer_tof_2))
        m1 == PropagateTargetRaans(m, vehicle_tof)
        new_country == c.target.country \notin SeqToSet(f.countries)
        f1 == [f EXCEPT
                !.vehicle_tof = vehicle_tof,
                !.vehicle_risk_reduction = @ + c.target.score,
                !.country_count = IF new_country THEN @ + 1 ELSE @,
                !.countries = IF new_country THEN Append(@, c.target.country) ELSE @]
    IN IF IsMothership(c.servicer) /\ SumSeq(f1.module_masses) = 0 THEN Break(m1, f1)
       ELSE IF PickerIsDone(c.servicer) THEN Break(m1, f1)
       ELSE Continue(m1, f1)

\* line 300: module_masses[i] = 0, on the walk's own list of module masses
RemoveModuleFromTemplate(m, f) ==
    [m |-> [m EXCEPT !.servicers[f.serv_ind + 1].modules[f.i + 1].wet_mass = 0],
     f |-> [f EXCEPT !.module_masses[f.i + 1] = 0]]
RemoveModuleMass(m, f) ==
    [m |-> m, f |-> [f EXCEPT !.module_masses[f.i + 1] = 0]]

\* lines 305-317: the module's disposal transfer is logged
ModuleRelease(m, f, c, deorbiter, drop) ==
    [m |-> LoggingData(m, deorbiter.name, drop.tof, NONE, c.t_ind, c.target.score,
                       0, drop.d_v, 0,
                       f.serv_loc[1] - drop.alt_drop, f.serv_loc[2], f.serv_loc[3]),
     f |-> f]

\* lines 298-304: module i leaves the Mothership at the Mothership's time
ModuleSeparate(w, c, orbit1, deorbiter, time) ==
    ModuleRelease(LoggingData(w.m, deorbiter.name, time, NONE, NONE, 0,
                              deorbiter.prop_mass, 0, 0,
                              w.f.serv_loc[1], w.f.serv_loc[2], w.f.serv_loc[3]),
                  w.f, c, deorbiter,
                  CalcAltDrop(orbit1, deorbiter.wet_mass + c.target.mass,
                              deorbiter.prop_mass, deorbiter.thrust, deorbiter.isp))

\* lines 296-317: a Mothership hands the target to module i of its list
ModuleDeorbit(m, f, c, orbit1) ==
    ModuleSeparate(RemoveModuleMass(m, f), c, orbit1, c.servicer.modules[f.i + 1],
                   m.data_log[c.servicer.name][Len(m.data_log[c.servicer.name])].time)

\* lines 325-332: the Picker's disposal transfer is logged
PickerRelease(m, f, c, drop) ==
    LegCredit(LoggingData(m, c.servicer.name, drop.tof, NONE, c.t_ind, c.target.score,
                          0, drop.d_v, 0,
                          f.serv_loc[1] - drop.alt_drop, f.serv_loc[2], f.serv_loc[3]),
              f, c, drop.tof)

\* lines 319-332: a Picker takes the target down itself
PickerDeorbit(m, f, c, orbit1) ==
    PickerRelease(m, f, c,
                  CalcAltDrop(orbit1, c.servicer.wet_mass + c.target.mass,
                              c.servicer.prop_mass, c.servicer.thrust, c.servicer.isp))

\* lines 352-359: the arrival on the drop-off orbit is logged
TransferDownLogged(m, f, c, cost2, usable_prop, serv_loc) ==
    LegCredit(LoggingData(m, c.servicer.name, cost2.transfer_tof, NONE,
                          IF IsMothership(c.servicer) THEN NONE ELSE c.t_ind,
                          c.target.score, usable_prop, cost2.transfer_dv, f.refuels,
                          serv_loc[1], serv_loc[2], serv_loc[3]),
              [f EXCEPT !.usable_prop = usable_prop, !.serv_loc = serv_loc],
              c, cost2.transfer_tof)

\* lines 344-351: propellant and location after the transfer down
TransferDownWith(m, f, c, orbit2, cost2) ==
    IF cost2.exc # "none" THEN Raise(m, f, cost2.exc)
    ELSE TransferDownLogged(m, f, c, cost2, f.usable_prop - cost2.prop_mass,
            <<orbit2[1], orbit2[2],
              PropagateServicerRaan(f.serv_loc[1], f.serv_loc[2], f.serv_loc[3],
                                    cost2.transfer_tof)>>)

\* lines 333-359: a Shuttle or Mothership flies down to its drop-off orbit
TransferDown(m, f, c, orbit1, orbit1_unc, orbit2, extra_mass) ==
    TransferDownWith(m, f, c, orbit2,
        CalcTransferCosts(m, orbit1, orbit1_unc, orbit2, <<0, 0, 0>>,
            c.servicer.dry_mass + f.usable_prop + extra_mass + SumSeq(f.module_masses),
            c.servicer.thrust, c.servicer.isp))

\* the Mothership's own transfer follows its module's departure
TransferDownAfter(w, c, orbit1, orbit1_unc, orbit2, extra_mass) ==
    TransferDown(w.m, w.f, c, orbit1, orbit1_unc, orbit2, extra_mass)

\* lines 284-359: deorbit the captured target
LegDeorbit(m, f, c) ==
    LET servicer == c.servicer
        orbit1 == c.orbit2
        orbit1_unc == c.orbit2_unc
        orbit2 == IF IsShuttle(servicer)
                    THEN <<R_E + servicer.drop_off_alt, orbit1[2], orbit1[3]>>
                  ELSE IF IsMothership(servicer)
                    THEN <<R_E + servicer.raan_sync_alt, orbit1[2], orbit1[3]>>
                  ELSE c.orbit2
        extra_mass == IF IsShuttle(servicer) THEN c.target.mass ELSE 0
    IN IF IsMothership(servicer)
       THEN IF Len(m.data_log[servicer.name]) = 0
                \/ f.i + 1 > Len(servicer.modules)
            THEN Raise(m, f, "IndexError")
            ELSE TransferDownAfter(ModuleDeorbit(m, f, c, orbit1), c, orbit1, orbit1_unc,
                                   orbit2, extra_mass)
       ELSE IF IsPicker(servicer) THEN PickerDeorbit(m, f, c, orbit1)
       ELSE TransferDown(m, f, c, orbit1, orbit1_unc, orbit2, extra_mass)

\* lines 268-279: docking and capture
LegDocked(m, f, c, usable_prop, serv_loc) ==
    LegDeorbit(LoggingData(m, c.servicer.name, c.servicer.docking_time, c.t_ind, NONE, 0,
                           usable_prop, c.servicer.docking_dv, f.refuels,
                           serv_loc[1], serv_loc[2], serv_loc[3]),
               [f EXCEPT !.usable_prop = usable_prop, !.serv_loc = serv_loc], c)

\* lines 247-267: the transfer to the target
LegTransferred(m, f, c, usable_prop, serv_loc) ==
    LegDocked(LoggingData(m, c.servicer.name, c.cost.transfer_tof, NONE, NONE, 0,
                          usable_prop, c.cost.transfer_dv, f.refuels,
                          serv_loc[1], serv_loc[2], serv_loc[3]),
              f, c,
              usable_prop - RocketEquation(c.servicer.dry_mass + usable_prop,
                                           c.servicer.docking_dv, c.servicer.isp),
              <<serv_loc[1], serv_loc[2],
                PropagateServicerRaan(serv_loc[1], serv_loc[2], serv_loc[3],
                                      c.servicer.docking_time)>>)

\* lines 243-279: the phasing wait is logged, then the transfer and the capture
LegArrive(m, f, c) ==
    LegTransferred(LoggingData(m, c.servicer.name, c.raan_tof, NONE, NONE, 0,
                               f.usable_prop, 0, f.refuels,
                               f.serv_loc[1], f.serv_loc[2], f.serv_loc[3]),
                   f, c, f.usable_prop - c.cost.prop_mass,
                   <<c.orbit2[1], c.orbit2[2],
                     PropagateServicerRaan(f.serv_loc[1], f.serv_loc[2], f.serv_loc[3],
                                           c.cost.transfer_tof)>>)

\* lines 233-241: the servicer drifts while it waits; the duration check is
\* estimated_tof / 3600 / 24 / 365 > self.year_limit
LegPhased(m, f, c) ==
    IF NanLess(m.year_limit * YEAR_DAYS, f.estimated_tof) THEN Break(m, f)
    ELSE LegArrive(m, f, c)

LegWaited(m, f, c, raan_tof) ==
    LegPhased(m,
              [f EXCEPT !.serv_loc[3] =
                            PropagateServicerRaan(f.serv_loc[1], f.serv_loc[2],
                                                  f.serv_loc[3], raan_tof),
                        !.estimated_tof = NanAdd(@, NanAdd(raan_tof, 2 * c.cost.transfer_tof))],
              [c EXCEPT !.raan_tof = raan_tof])

\* lines 228-241: the phasing wait and the mission-duration check
LegPhasing(m, f, c) ==
    LegWaited(m, f, c,
              CalcRaanWait(m, f.serv_loc, <<0, 0, 0>>, c.orbit2, c.orbit2_unc,
                           c.cost.transfer_tof))

\* a refuel that is counted but leaves the tank as it is
RefuelKeepsTank(f, servicer) == [f EXCEPT !.refuels = @ - 1]

\* lines 213-216: a full tank, one refuel less
Refuel(f, servicer) ==
    [f EXCEPT !.usable_prop = servicer.prop_mass, !.refuels = @ - 1]

\* lines 202-226: enough propellant, a skip, a refuel, or the end of the walk
LegCosted(m, f, c) ==
    LET servicer == c.servicer
        cost == c.cost
        insuff_prop ==
            IF IsMothership(servicer) THEN 3 * cost.prop_mass > f.usable_prop
            ELSE (3 + CeilDiv(c.target.mass, servicer.wet_mass)) * cost.prop_mass
                    > f.usable_prop
    IN IF cost.exc # "none" THEN Raise(m, f, cost.exc)
       ELSE IF ~insuff_prop THEN LegPhasing(m, f, c)
       ELSE IF cost.prop_mass > servicer.prop_mass \/ IsPicker(servicer)
            THEN Skip(m, f)
       ELSE IF f.refuels > 0
            THEN LegPhasing(
                    LoggingData(m, servicer.name, 0, NONE, NONE, 0, servicer.prop_mass,
                                0, Refuel(f, servicer).refuels,
                                f.serv_loc[1], f.serv_loc[2], f.serv_loc[3]),
                    Refuel(f, servicer), c)
       ELSE Break(m, f)

\* lines 183-199: the target of the pass and the cost of reaching it
LegTarget(m, f, servicer, t_ind, target, orbit2) ==
    LegCosted(m, f,
        [servicer |-> servicer, t_ind |-> t_ind, target |-> target,
         orbit2 |-> orbit2, orbit2_unc |-> target.orbit_unc,
         cost |-> CalcTransferCosts(m, f.serv_loc, <<0, 0, 0>>, orbit2, target.orbit_unc,
                    servicer.dry_mass + f.usable_prop + SumSeq(f.module_masses),
                    servicer.thrust, servicer.isp),
         raan_tof |-> 0])

\* lines 183-380: one pass of the route loop
LegOp(m, f) ==
    LET t_ind == f.routes[f.serv_ind + 1][f.i + 1]
        target == m.targets[t_ind + 1]
    IN LegTarget(m, f, m.servicers[f.serv_ind + 1], t_ind, target,
                 <<target.orbit_mean[1], target.orbit_mean[2], m.target_raans[t_ind + 1]>>)

\* lines 382-406: one servicer's scores and the shared metrics
WrapOp(m, f) ==
    LET servicer == m.servicers[f.serv_ind + 1]
        route == f.routes[f.serv_ind + 1]
        limit_days == m.year_limit * YEAR_DAYS
        \* 1 / (1 + (vehicle_tof_years / self.year_limit))
        tof_score == IF f.vehicle_tof = NAN THEN NAN
                     ELSE (FITNESS_ONE * limit_days) \div (limit_days + f.vehicle_tof)
        \* 1 / (1 + (country_count / self.max_countries))
        policy == IF m.max_countries = 1 THEN FITNESS_ONE
                  ELSE (FITNESS_ONE * m.max_countries)
                          \div (m.max_countries + f.country_count)
        used == IF IsPicker(servicer) THEN 0 ELSE servicer.num_refuels - f.refuels
        rm == m.raw_metrics
        mass == servicer.wet_mass
                  + (IF IsMothership(servicer)
                     THEN servicer.modules[1].wet_mass * Len(servicer.modules) ELSE 0)
        m1 == [m EXCEPT
                !.raw_metrics =
                    [risk_remediated |-> rm.risk_remediated + f.vehicle_risk_reduction,
                     total_tof |-> NanAdd(rm.total_tof, f.vehicle_tof),
                     max_tof |-> IF NanLess(rm.max_tof, f.vehicle_tof) THEN f.vehicle_tof
                                 ELSE rm.max_tof,
                     refuel_mass |-> rm.refuel_mass + used * servicer.prop_mass],
                !.vehicle_used =
                    IF Len(route) > 0 THEN [@ EXCEPT ![f.serv_ind + 1] = 1] ELSE @,
                !.vehicle_mass = IF Len(route) > 0 THEN @ + mass ELSE @]
        last == f.serv_ind + 1 = Len(m.servicers)
    IN [m |-> m1,
        f |-> [f EXCEPT
                !.score_list = Append(@, f.vehicle_risk_reduction),
                !.tof_list = Append(@, tof_score),
                !.policy_list = Append(@, policy),
                !.refuels_used = @ + used,
                !.serv_ind = @ + 1,
                !.pc = IF last THEN "final" ELSE "servicer"]]

\* the builtin min: an item replaces the least so far only if it compares less
RECURSIVE MinFrom(_, _, _)
MinFrom(s, p, least) ==
    IF p > Len(s) THEN least
    ELSE MinFrom(s, p + 1, IF NanLess(s[p], least) THEN s[p] ELSE least)

MinSeq(s) == MinFrom(s, 2, s[1])

\* line 408: if self.raw_metrics["risk remediated"] == 0
NothingRemediated(m) == m.raw_metrics.risk_remediated = 0

\* lines 408-422: the floor and the weighted composite
FinalOp(m, f) ==
    IF NothingRemediated(m) THEN Return(m, f, FLOOR_FITNESS)
    ELSE IF Len(m.weights) # 4 THEN Raise(m, f, "ValueError")
    ELSE LET \* 0.5 + (sum(score_list) / self.max_score / 2)
             risk_score == FITNESS_ONE \div 2
                            + (SumSeq(f.score_list) * FITNESS_ONE) \div (2 * m.max_score)
             time_score == MinSeq(f.tof_list)
             \* 1 / (1 + (self.vehicle_mass / self.max_veh_mass))
             veh_score == ((FITNESS_ONE \div 10) * m.max_veh_mass)
                            \div ((m.max_veh_mass + m.vehicle_mass) \div 10)
             policy_score == Mean(f.policy_list)
             performance == IF time_score = NAN THEN NAN
                            ELSE (m.weights[1] * risk_score + m.weights[2] * time_score
                                    + m.weights[3] * veh_score
                                    + m.weights[4] * policy_score) \div 100
         IN Return(m, f, performance)

\* the next step of a call that has begun
StepOp(m, f) ==
    CASE f.pc = "servicer" -> ServicerOp(m, f)
      [] f.pc = "route" -> LegOp(m, f)
      [] f.pc = "wrap" -> WrapOp(m, f)
      [] f.pc = "final" -> FinalOp(m, f)
      [] OTHER -> [m |-> m, f |-> f]

Finished(f) == f.pc \in {"done", "raised"}

\* a whole call of __traverse_routes(ind) on Mission m, run on its own
RECURSIVE RunToEnd(_)
RunToEnd(w) == IF Finished(w.f) THEN w ELSE RunToEnd(StepOp(w.m, w.f))

TraverseRoutes(m, g) == RunToEnd(BeginOp(m, g))

(***************************************************************************)
(* VehicleRouting (optimize.py): the genetic algorithm.  An individual is  *)
(* the record [genes, fitness, valid]; toolbox.clone is a deep copy, which *)
(* a value is.  The operators select, mate, mutate and the hall of fame    *)
(* are those of the DEAP library registered in __ga_setup; every           *)
(* random.* call is a parameter the actions choose.  The fitness has one   *)
(* value of weight 1, as in Mission.solve_mission: a greater value is      *)
(* fitter.                                                                 *)
(***************************************************************************)
\* tests/test_genetic_alg.py Data.fitness_func: the benchmark fitness
FitnessFunc(individual) ==
    IF Cardinality(SeqToSet(individual)) # Len(individual) THEN 100
    ELSE SumSeq([p \in 1..(Len(individual) - 1) |->
                    Abs(individual[p] - individual[p + 1])])

\* creator.Individual(toolbox.indices()): a fresh individual has no fitness
Individual(genes) == [genes |-> genes, fitness |-> 0, valid |-> FALSE]

\* ind.fitness.values = toolbox.evaluate(ind)
Evaluate(individual) ==
    [individual EXCEPT !.fitness = FitnessFunc(individual.genes), !.valid = TRUE]

\* lines 127-130: only the individuals with an invalid fitness are evaluated
EvaluateInvalid(pop) ==
    [p \in 1..Len(pop) |-> IF pop[p].valid THEN pop[p] ELSE Evaluate(pop[p])]

\* a change of the genome that keeps the fitness of the old one
InvalidateForgotten(individual) == individual

\* del ind.fitness.values
Invalidate(individual) == [individual EXCEPT !.fitness = 0, !.valid = FALSE]

\* max(aspirants, key=fitness): the first aspirant of the greatest fitness
RECURSIVE FirstBest(_, _, _, _)
FirstBest(pop, order, p, best) ==
    IF p > Len(order) THEN best
    ELSE FirstBest(pop, order, p + 1,
                   IF pop[order[p]].fitness > pop[best].fitness THEN order[p] ELSE best)

\* tools.selTournament(pop, len(pop), tournsize): aspirants[k] lists the
\* individuals random.choice drew for offspring k
SelTournament(pop, aspirants) ==
    [k \in 1..Len(aspirants) |-> pop[FirstBest(pop, aspirants[k], 2, aspirants[k][1])]]

\* tools.selBest(pop, 1)[0]: a stable sort by decreasing fitness, first item
SelBest(pop) == pop[FirstBest(pop, [p \in 1..Len(pop) |-> p], 2, 1)]

\* tools.cxOrdered, first loop: the values of the other parent between the
\* cut points a and b (Python indices, inclusive) are the holes
Holes(other, a, b) == {other[p + 1] : p \in a..b}

\* tools.cxOrdered, second loop, for one child: the values that are no
\* holes are written from position b + 1 on, in their order from b + 1
RECURSIVE CxFill(_, _, _, _, _)
CxFill(q, genes, holes, k, b) ==
    IF q = Len(genes) THEN genes
    ELSE IF genes[((q + b + 1) % Len(genes)) + 1] \notin holes
         THEN CxFill(q + 1,
                     [genes EXCEPT ![(k % Len(genes)) + 1] =
                                        genes[((q + b + 1) % Len(genes)) + 1]],
                     holes, k + 1, b)
         ELSE CxFill(q + 1, genes, holes, k, b)

\* tools.cxOrdered, last loop: the content between a and b is swapped
CxSwap(filled1, filled2, a, b) ==
    << [p \in 1..Len(filled1) |-> IF p - 1 \in a..b THEN filled2[p] ELSE filled1[p]],
       [p \in 1..Len(filled2) |-> IF p - 1 \in a..b THEN filled1[p] ELSE filled2[p]] >>

\* one-point crossover: the tails after b are exchanged
CxOnePoint(genes1, genes2, a, b) ==
    << [p \in 1..Len(genes1) |-> IF p - 1 > b THEN genes2[p] ELSE genes1[p]],
       [p \in 1..Len(genes2) |-> IF p - 1 > b THEN genes1[p] ELSE genes2[p]] >>

\* tools.cxOrdered(ind1, ind2) with cut points a < b: the two children
CxOrdered(genes1, genes2, a, b) ==
    CxSwap(CxFill(0, genes1, Holes(genes2, a, b), b + 1, b),
           CxFill(0, genes2, Holes(genes1, a, b), b + 1, b), a, b)

\* tools.mutShuffleIndexes from index q on: swaps[q + 1] is 0 when
\* random.random() >= indpb, and else 1 + random.randint(0, size - 2)
RECURSIVE MutShuffleFrom(_, _, _)
MutShuffleFrom(q, genes, swaps) ==
    IF q = Len(genes) THEN genes
    ELSE IF swaps[q + 1] = 0 THEN MutShuffleFrom(q + 1, genes, swaps)
    ELSE MutShuffleFrom(q + 1,
            [genes EXCEPT
                ![q + 1] = genes[(IF swaps[q + 1] - 1 >= q THEN swaps[q + 1]
                                  ELSE swaps[q + 1] - 1) + 1],
                ![(IF swaps[q + 1] - 1 >= q THEN swaps[q + 1]
                   ELSE swaps[q + 1] - 1) + 1] = genes[q + 1]],
            swaps)

MutShuffleIndexes(genes, swaps) == MutShuffleFrom(0, genes, swaps)

\* the hall of fame keeps only the latest best
HofReplace(items, item) == <<item>>

\* tools.HallOfFame.insert: i = bisect_right(keys, fitness) counts the
\* items that are not fitter; the copy goes in at position len - i, behind
\* the fitter items.  insert() does not look at maxsize.
HofInsert(items, item) ==
    SubSeq(items, 1, Cardinality({p \in 1..Len(items) : items[p].fitness > item.fitness}))
        \o <<item>>
        \o SubSeq(items,
                  Cardinality({p \in 1..Len(items) : items[p].fitness > item.fitness}) + 1,
                  Len(items))

\* stats "avg" is np.mean of the fitness values; the model logs the sum of
\* the population's fitness values, pop_size times the average
FitnessSum(pop) == SumSeq([p \in 1..Len(pop) |-> pop[p].fitness])

\* perfs[-5:-1]: the up to four entries before the last
TrailingBeforeLast(perfs) ==
    SubSeq(perfs, IF Len(perfs) > 5 THEN Len(perfs) - 4 ELSE 1, Len(perfs) - 1)

\* abs(np.average(prev) - last) * 100 / last < 1, prev not empty.  A last
\* of zero gives inf or nan, which is not below 1.
PercentBelowOne(prev, last) ==
    IF last > 0 THEN Abs(SumSeq(prev) - Len(prev) * last) * 100 < Len(prev) * last
    ELSE last < 0

\* lines 97-99: perc_imp < 1; the average of an empty slice is nan
Converged(perfs) ==
    /\ Len(perfs) > 1
    /\ PercentBelowOne(TrailingBeforeLast(perfs), perfs[Len(perfs)])

\* the stop test after at least num_gens generations
StopTestFromNumGens(gen_iter, num_gens, perfs) == gen_iter >= num_gens /\ Converged(perfs)

\* lines 95-100: the stop test of the evolution loop
StopTest(gen_iter, num_gens, perfs) == gen_iter > num_gens /\ Converged(perfs)

(***************************************************************************)
(* The Missions the simulator specifications run on.  Masses are in 0.1 kg *)
(* and RAAN in 1/1000 degree; the values follow examples/mission_design/   *)
(* design_fleet.py.                                                        *)
(***************************************************************************)
TargetNear == Sat(6971, 65, 30000, 5, 0, 200, 10000, 3, "US")
TargetMid == Sat(7071, 66, 45000, 0, 0, 0, 15000, 5, "CIS")
\* Mid on a plane that lies behind Near's: a long phasing wait
TargetMidBehind == Sat(7071, 66, 20000, 0, 0, 0, 15000, 5, "CIS")
TargetParked == Sat(6928, 65, 45000, 0, 0, 0, 10000, 3, "US")
TargetFar == Sat(7171, 98, 100000, 0, 0, 0, 8000, 4, "PRC")
TargetNearNoScore == Sat(6971, 65, 30000, 0, 0, 0, 10000, 0, "US")
TargetMidNoScore == Sat(7071, 66, 45000, 0, 0, 0, 15000, 0, "US")

FleetShuttle ==
    Shuttle("Shuttle", 5000, 40, 100, 1400, 6928, 65, 28000, 300, 10, 75, 2)
\* a Shuttle that has to refuel on the way to its second target
FleetShuttleLean ==
    Shuttle("Shuttle", 5000, 15, 100, 1400, 6928, 65, 28000, 300, 10, 75, 2)
\* a Shuttle with a small tank that cannot refuel
FleetShuttleDry ==
    Shuttle("Shuttle", 5000, 4, 100, 1400, 6928, 65, 28000, 300, 10, 75, 0)
FleetPicker ==
    Picker("Picker", 5000, 40, 100, 1400, 6928, 65, 28000, 10, 75)
\* a Picker whose tank takes it to Near but not down from there
FleetPickerFaint ==
    Picker("Picker", 5000, 1, 100, 1400, 6928, 65, 28000, 10, 75)
FleetMothership ==
    Mothership("Mothership", 20000, 50, 250000, 330, 6928, 65, 28000, 550, 10, 75, 1,
               <<Spacecraft("DeorbitMod1", 2000, 60, 100, 1400)>>)

Weights == <<40, 30, 20, 10>>

Scenarios ==
    << \* one Shuttle, two reachable targets, a refuel between them
       MissionInit(<<TargetNear, TargetMid>>, <<FleetShuttleLean>>, Weights, 4, 1, 1, <<0>>,
                   TRUE),
       \* one Picker whose routes can hold several targets; two samples per cost
       MissionInit(<<TargetFar, TargetNear, TargetMid>>, <<FleetPicker>>, Weights, 4, 1, 2,
                   <<-1, 1>>, TRUE),
       \* one Mothership with a single module and an unreachable target
       MissionInit(<<TargetFar, TargetNear, TargetMid>>, <<FleetMothership>>, Weights, 4, 1,
                   1, <<0>>, TRUE),
       \* a mixed fleet whose routes must all be non-empty
       MissionInit(<<TargetNear, TargetMid>>, <<FleetShuttle, FleetPicker>>, Weights, 4, 1,
                   1, <<1>>, FALSE),
       \* targets that all score zero
       MissionInit(<<TargetNearNoScore, TargetMidNoScore>>, <<FleetShuttle>>, Weights, 4, 0,
                   1, <<0>>, TRUE),
       \* a weight tuple of two entries instead of four
       MissionInit(<<TargetNear>>, <<FleetShuttle>>, <<50, 50>>, 4, 1, 1, <<0>>, TRUE),
       \* a Picker parked on the altitude and inclination of its first target
       MissionInit(<<TargetParked, TargetMid>>, <<FleetPicker>>, Weights, 4, 1, 1, <<0>>,
                   TRUE),
       \* a Shuttle without refuels ahead of a Picker
       MissionInit(<<TargetNear, TargetMid, TargetFar>>, <<FleetShuttleDry, FleetPicker>>,
                   Weights, 4, 1, 1, <<0>>, TRUE),
       \* the Shuttle that refuels on its way, with one year to spend
       MissionInit(<<TargetNear, TargetMidBehind>>, <<FleetShuttleLean>>, Weights, 1, 1, 1,
                   <<0>>, TRUE),
       \* a Picker with one percent of propellant
       MissionInit(<<TargetNear>>, <<FleetPickerFaint>>, Weights, 4, 1, 1, <<0>>, TRUE) >>

ScenarioIds == 1..Len(Scenarios)
\* the Missions on which two evaluations are interleaved
ParScenarioIds == {1, 5}

Evaluators == {1, 2}

GenomesOf(m) == Genomes(Len(m.servicers), Len(m.targets))

(***************************************************************************)
(* The steps of a call as actions of evaluator e.                          *)
(***************************************************************************)
Apply(e, w) ==
    /\ mission' = w.m
    /\ frames' = [frames EXCEPT ![e] = w.f]

Servicer(e) ==
    /\ frames[e].pc = "servicer"
    /\ Apply(e, ServicerOp(mission, frames[e]))
    /\ UNCHANGED <<dec_vars, opt_vars, scenario, calls>>

Leg(e) ==
    /\ frames[e].pc = "route"
    /\ Apply(e, LegOp(mission, frames[e]))
    /\ UNCHANGED <<dec_vars, opt_vars, scenario, calls>>

Wrap(e) ==
    /\ frames[e].pc = "wrap"
    /\ Apply(e, WrapOp(mission, frames[e]))
    /\ UNCHANGED <<dec_vars, opt_vars, scenario, calls>>

Final(e) ==
    /\ frames[e].pc = "final"
    /\ Apply(e, FinalOp(mission, frames[e]))
    /\ UNCHANGED <<dec_vars, opt_vars, scenario, calls>>

\* the optimizer calls the fitness function again once the last call returned
Begin(g) ==
    /\ frames[1].pc \in {"idle", "done"}
    /\ calls < MaxCalls
    /\ Apply(1, BeginOp(mission, g))
    /\ calls' = calls + 1
    /\ UNCHANGED <<dec_vars, opt_vars, scenario>>

\* a worker begins its evaluation while another may be under way
BeginPar(e, g) ==
    /\ frames[e].pc = "idle"
    /\ Apply(e, BeginOp(mission, g))
    /\ calls' = calls + 1
    /\ UNCHANGED <<dec_vars, opt_vars, scenario>>

DecoderOff ==
    /\ dec_pc = "off"
    /\ ind = <<>>
    /\ num_vehicles = 0
    /\ routes_shift = <<>>

OptimizerOff ==
    /\ optimizer = [pc |-> "off"]
    /\ sampler = [pc |-> "off"]

Init ==
    /\ DecoderOff
    /\ OptimizerOff
    /\ scenario \in ScenarioIds
    /\ mission = Scenarios[scenario]
    /\ frames = [e \in Evaluators |-> IdleFrame]
    /\ calls = 0

InitPar ==
    /\ DecoderOff
    /\ OptimizerOff
    /\ scenario \in ParScenarioIds
    /\ mission = Scenarios[scenario]
    /\ frames = [e \in Evaluators |-> IdleFrame]
    /\ calls = 0

(***************************************************************************)
(* Decoder specification: a genome is drawn, then decoded.                 *)
(***************************************************************************)
InitDecode ==
    /\ dec_pc = "input"
    /\ num_vehicles \in 1..MaxVehicles
    /\ \E nt \in 0..MaxTargets : ind \in Genomes(num_vehicles, nt)
    /\ routes_shift = <<>>
    /\ scenario = 1
    /\ mission = Scenarios[1]
    /\ frames = [e \in Evaluators |-> IdleFrame]
    /\ calls = 0
    /\ OptimizerOff

Decode ==
    /\ dec_pc = "input"
    /\ routes_shift' = DecodeRouting(ind, num_vehicles)
    /\ dec_pc' = "decoded"
    /\ UNCHANGED <<ind, num_vehicles, sim_vars, opt_vars>>

NextDecode == Decode

vars == <<dec_vars, sim_vars, opt_vars>>

SpecDecode == InitDecode /\ [][NextDecode]_vars

(***************************************************************************)
(* Simulator specifications: Spec makes the calls one after another, as    *)
(* the optimizer's map() does; SpecPar interleaves the steps of two calls  *)
(* on one Mission.                                                         *)
(***************************************************************************)
Next ==
    \/ \E g \in GenomesOf(mission) : Begin(g)
    \/ Servicer(1)
    \/ Leg(1)
    \/ Wrap(1)
    \/ Final(1)

Spec == Init /\ [][Next]_vars

NextPar ==
    \E e \in Evaluators :
        \/ \E g \in GenomesOf(mission) : BeginPar(e, g)
        \/ Servicer(e)
        \/ Leg(e)
        \/ Wrap(e)
        \/ Final(e)

SpecPar == InitPar /\ [][NextPar]_vars

(***************************************************************************)
(* Optimizer specification: one run of VehicleRouting.optimize() on the    *)
(* benchmark fitness, with one vehicle and two targets.  The walk of       *)
(* the evolution loop is optimizer.pc: "head" is the top of the while      *)
(* loop, "select", "mate", "mutate" and "replace" are the steps of one     *)
(* generation; optimizer.mutant is the cursor of the mutation loop.        *)
(***************************************************************************)
GaConfig == [num_vehicles |-> 1, num_targets |-> 2, pop_size |-> 2, tourney_size |-> 2]
GaIndSize == GaConfig.num_targets + GaConfig.num_vehicles
GaNumGens == {0, MaxNumGens}

SimulatorIdle ==
    /\ scenario = 1
    /\ mission = Scenarios[1]
    /\ frames = [e \in Evaluators |-> IdleFrame]
    /\ calls = 0

\* VehicleRouting.__init__
InitGA ==
    /\ DecoderOff
    /\ SimulatorIdle
    /\ sampler = [pc |-> "off"]
    /\ \E n \in GaNumGens :
         optimizer = [pc |-> "constructed", num_gens |-> n, ind_size |-> GaIndSize,
                      pop_size |-> GaConfig.pop_size,
                      tourney_size |-> GaConfig.tourney_size,
                      best_performance |-> NONE,
                      pop |-> <<>>, offspring |-> <<>>, hof |-> <<>>,
                      gen_iter |-> 0, perfs |-> <<>>, mutant |-> 1]

\* optimize(), lines 82-91: __ga_setup draws the population, every
\* individual of it is evaluated, the counters are cleared
GaSetup(genomes) ==
    /\ optimizer.pc = "constructed"
    /\ optimizer' = [optimizer EXCEPT
            !.pc = "head",
            !.pop = EvaluateInvalid([p \in 1..Len(genomes) |-> Individual(genomes[p])]),
            !.hof = <<>>,
            !.gen_iter = 0,
            !.perfs = <<>>]
    /\ UNCHANGED <<dec_vars, sim_vars, sampler>>

\* lines 94-100: the stop test is met, the loop is left and optimize() returns
GaStop ==
    /\ optimizer.pc = "head"
    /\ StopTest(optimizer.gen_iter, optimizer.num_gens, optimizer.perfs)
    /\ optimizer' = [optimizer EXCEPT !.pc = "done"]
    /\ UNCHANGED <<dec_vars, sim_vars, sampler>>

\* lines 94-103: the stop test is not met, the next generation begins
GaNextGeneration ==
    /\ optimizer.pc = "head"
    /\ ~StopTest(optimizer.gen_iter, optimizer.num_gens, optimizer.perfs)
    /\ optimizer.gen_iter < MaxGenIter
    /\ optimizer' = [optimizer EXCEPT !.pc = "select", !.gen_iter = @ + 1]
    /\ UNCHANGED <<dec_vars, sim_vars, sampler>>

\* lines 106-108: tournament selection, the winners are cloned
GaSelect(aspirants) ==
    /\ optimizer.pc = "select"
    /\ optimizer' = [optimizer EXCEPT
            !.pc = "mate",
            !.offspring = SelTournament(optimizer.pop, aspirants)]
    /\ UNCHANGED <<dec_vars, sim_vars, sampler>>

\* lines 111-118 for the pair (offspring[2k-2], offspring[2k-1]) in Python
\* indices: cuts[k] is <<>> when random.random() >= cross_prob and else the
\* cut points <<a, b>>
MatePair(offspring, p, cuts) ==
    IF (p + 1) \div 2 > Len(cuts) \/ cuts[(p + 1) \div 2] = <<>> THEN offspring[p]
    ELSE [genes |-> CxOrdered(offspring[p - ((p + 1) % 2)].genes,
                              offspring[p - ((p + 1) % 2) + 1].genes,
                              cuts[(p + 1) \div 2][1],
                              cuts[(p + 1) \div 2][2])[2 - (p % 2)],
          fitness |-> 0, valid |-> FALSE]

GaMate(cuts) ==
    /\ optimizer.pc = "mate"
    /\ optimizer' = [optimizer EXCEPT
            !.pc = "mutate",
            !.offspring = [p \in 1..Len(@) |-> MatePair(@, p, cuts)]]
    /\ UNCHANGED <<dec_vars, sim_vars, sampler>>

\* the draws of random.random and random.randint in lines 120-124
GaSwaps == {<<>>} \cup [1..GaIndSize -> 0..(GaIndSize - 1)]

\* lines 120-124 for one individual: swaps is <<>> when random.random() >=
\* ind_mutate_prob
MutateOne(individual, swaps) ==
    IF swaps = <<>> THEN individual
    ELSE Invalidate([individual EXCEPT !.genes = MutShuffleIndexes(@, swaps)])

\* lines 120-124, one pass of the loop: the individual under the cursor
\* becomes one of the outcomes of its mutation, over every draw of swaps
GaMutate ==
    /\ optimizer.pc = "mutate"
    /\ \E individual \in {MutateOne(optimizer.offspring[optimizer.mutant], swaps) :
                               swaps \in GaSwaps} :
         optimizer' = [optimizer EXCEPT
            !.pc = IF optimizer.mutant = Len(optimizer.offspring) THEN "replace"
                   ELSE "mutate",
            !.mutant = IF optimizer.mutant = Len(optimizer.offspring) THEN 1 ELSE @ + 1,
            !.offspring[optimizer.mutant] = individual]
    /\ UNCHANGED <<dec_vars, sim_vars, sampler>>

\* lines 127-145: the changed individuals are evaluated, the offspring
\* replace the population, its best goes to the hall of fame, its average
\* fitness is logged.  The fitness is assigned to the objects the list
\* offspring holds, which are the population from line 133 on.
Replaced(o, pop) ==
    [o EXCEPT !.pc = "head",
              !.pop = pop,
              !.offspring = pop,
              !.hof = HofInsert(@, SelBest(pop)),
              !.perfs = Append(@, FitnessSum(pop))]

GaReplace ==
    /\ optimizer.pc = "replace"
    /\ optimizer' = Replaced(optimizer, EvaluateInvalid(optimizer.offspring))
    /\ UNCHANGED <<dec_vars, sim_vars, sampler>>

\* the draws of random.sample, random.choice, random.random and random.randint
GaPopulations == [1..GaConfig.pop_size -> PermsOf(0..(GaIndSize - 1))]
GaAspirants ==
    [1..GaConfig.pop_size -> [1..GaConfig.tourney_size -> 1..GaConfig.pop_size]]
GaCuts ==
    [1..(GaConfig.pop_size \div 2) ->
        {<<>>} \cup {c \in (0..(GaIndSize - 1)) \X (0..(GaIndSize - 1)) : c[1] < c[2]}]

NextGA ==
    \/ \E genomes \in GaPopulations : GaSetup(genomes)
    \/ GaStop
    \/ GaNextGeneration
    \/ \E aspirants \in GaAspirants : GaSelect(aspirants)
    \/ \E cuts \in GaCuts : GaMate(cuts)
    \/ GaMutate
    \/ GaReplace

SpecGA == InitGA /\ [][NextGA]_vars

(***************************************************************************)
(* The evolution loop without a bound on the generations.  The loop reads  *)
(* gen_iter only in 'gen_iter > self.num_gens' and perfs only in           *)
(* perfs[-5:-1] and perfs[-1] (optimize.py:95-97), so the counter is kept  *)
(* up to num_gens + 1 and the list to its last five entries; the hall of   *)
(* fame has no part in the loop's control and is left out.  The fitness    *)
(* function is an argument of VehicleRouting: here it is a constant, the   *)
(* field fitness_func, whatever the genome.  The program runs one          *)
(* statement after the other, so a step that can be taken is taken.        *)
(***************************************************************************)
InitLoop ==
    /\ DecoderOff
    /\ SimulatorIdle
    /\ sampler = [pc |-> "off"]
    /\ \E n \in GaNumGens, c \in {0, FITNESS_ONE} :
         optimizer = [pc |-> "constructed", num_gens |-> n, ind_size |-> GaIndSize,
                      pop_size |-> GaConfig.pop_size,
                      tourney_size |-> GaConfig.tourney_size,
                      fitness_func |-> c,
                      pop |-> <<>>, offspring |-> <<>>,
                      gen_iter |-> 0, perfs |-> <<>>, mutant |-> 1]

\* lines 84-87 and 127-130 with the constant fitness function c
EvaluateInvalidAs(pop, c) ==
    [p \in 1..Len(pop) |->
        IF pop[p].valid THEN pop[p] ELSE [pop[p] EXCEPT !.fitness = c, !.valid = TRUE]]

LoopSetup(genomes) ==
    /\ optimizer.pc = "constructed"
    /\ optimizer' = [optimizer EXCEPT
            !.pc = "head",
            !.pop = EvaluateInvalidAs([p \in 1..Len(genomes) |-> Individual(genomes[p])],
                                      optimizer.fitness_func)]
    /\ UNCHANGED <<dec_vars, sim_vars, sampler>>

\* lines 94-103: the stop test is not met, the next generation begins
LoopNextGeneration ==
    /\ optimizer.pc = "head"
    /\ ~StopTest(optimizer.gen_iter, optimizer.num_gens, optimizer.perfs)
    /\ optimizer' = [optimizer EXCEPT
            !.pc = "select",
            !.gen_iter = IF @ > optimizer.num_gens THEN @ ELSE @ + 1]
    /\ UNCHANGED <<dec_vars, sim_vars, sampler>>

\* lines 127-145: evaluation, replacement and the log of the average
LoopReplace ==
    /\ optimizer.pc = "replace"
    /\ optimizer' = [optimizer EXCEPT
            !.pc = "head",
            !.pop = EvaluateInvalidAs(optimizer.offspring, optimizer.fitness_func),
            !.offspring = EvaluateInvalidAs(optimizer.offspring, optimizer.fitness_func),
            !.perfs = IF Len(@) = 5
                      THEN Append(Tail(@), Len(optimizer.offspring) * optimizer.fitness_func)
                      ELSE Append(@, Len(optimizer.offspring) * optimizer.fitness_func)]
    /\ UNCHANGED <<dec_vars, sim_vars, sampler>>

NextLoop ==
    \/ \E genomes \in GaPopulations : LoopSetup(genomes)
    \/ GaStop
    \/ LoopNextGeneration
    \/ \E aspirants \in GaAspirants : GaSelect(aspirants)
    \/ \E cuts \in GaCuts : GaMate(cuts)
    \/ GaMutate
    \/ LoopReplace

SpecLoop == InitLoop /\ [][NextLoop]_vars /\ WF_vars(NextLoop)

(***************************************************************************)
(* Sampler specification: one call of Mission.__calc_transfer_costs on a   *)
(* Mission of which only monte_carlo_size, conservatism and the draws of   *)
(* random.uniform matter.                                                  *)
(***************************************************************************)
SamplerOrbits == {<<6928, 65, 28000>>, <<7071, 66, 45000>>, <<7171, 98, 100000>>}

InitSampler ==
    /\ DecoderOff
    /\ SimulatorIdle
    /\ optimizer = [pc |-> "off"]
    /\ \E n \in 1..MaxSamples :
         sampler \in [pc : {"input"},
                      monte_carlo_size : {n},
                      conservatism : 0..MaxConservatism,
                      draws : [1..n -> {-1, 0, 1}],
                      orbit1_mean : SamplerOrbits,
                      orbit1_unc : {<<0, 0, 0>>, <<5, 1, 200>>},
                      orbit2_mean : SamplerOrbits,
                      orbit2_unc : {<<0, 0, 0>>, <<5, 1, 200>>},
                      mass : {5000}, thrust : {100}, isp : {330, 1400},
                      cost : {<<>>}]

Sample ==
    /\ sampler.pc = "input"
    /\ sampler' = [sampler EXCEPT
            !.pc = "sampled",
            !.cost = CalcTransferCosts(sampler, sampler.orbit1_mean, sampler.orbit1_unc,
                                       sampler.orbit2_mean, sampler.orbit2_unc,
                                       sampler.mass, sampler.thrust, sampler.isp)]
    /\ UNCHANGED <<dec_vars, sim_vars, optimizer>>

SpecSampler == InitSampler /\ [][Sample]_vars

(***************************************************************************)
(* The two routines that choose a transfer model by specific impulse, on   *)
(* the same vehicle: __calc_transfer_costs for the way to an orbit and     *)
(* __calc_alt_drop for the way down from it.  The second record carries    *)
(* the model each routine chose.                                           *)
(***************************************************************************)
InitSelect ==
    /\ DecoderOff
    /\ SimulatorIdle
    /\ optimizer = [pc |-> "off"]
    /\ sampler \in [pc : {"input"},
                    monte_carlo_size : {1}, conservatism : {1}, draws : {<<0>>},
                    orbit1_mean : SamplerOrbits, orbit1_unc : {<<0, 0, 0>>},
                    orbit2_mean : SamplerOrbits, orbit2_unc : {<<5, 1, 200>>},
                    mass : {5000}, thrust : {100},
                    isp : {330, ISP_SPLIT - 1, ISP_SPLIT, ISP_SPLIT + 1, 1400},
                    prop_mass : {2000},
                    model : {"none"}, cost : {<<>>},
                    drop_model : {"none"}, drop : {<<>>}]

SelectCost ==
    /\ sampler.pc = "input"
    /\ sampler' = [sampler EXCEPT
            !.pc = "sampled",
            !.model = TransferModel(sampler.isp),
            !.cost = CalcTransferCosts(sampler, sampler.orbit1_mean, sampler.orbit1_unc,
                                       sampler.orbit2_mean, sampler.orbit2_unc,
                                       sampler.mass, sampler.thrust, sampler.isp)]
    /\ UNCHANGED <<dec_vars, sim_vars, optimizer>>

SelectDrop ==
    /\ sampler.pc = "sampled"
    /\ sampler' = [sampler EXCEPT
            !.pc = "dropped",
            !.drop_model = AltDropModel(sampler.isp),
            !.drop = CalcAltDrop(sampler.orbit2_mean, sampler.mass, sampler.prop_mass,
                                 sampler.thrust, sampler.isp)]
    /\ UNCHANGED <<dec_vars, sim_vars, optimizer>>

SpecSelect == InitSelect /\ [][SelectCost \/ SelectDrop]_vars

(***************************************************************************)
(* Properties of the decoder.                                              *)
(***************************************************************************)
NumTargetsOf(g, nv) == Len(g) - nv

\* The genome values met walking cyclically from position p until the next
\* separator (a value < nv), each reduced by nv.
RECURSIVE RunFrom(_, _, _, _)
RunFrom(g, nv, p, left) ==
    IF left = 0 \/ g[p] < nv THEN <<>>
    ELSE <<g[p] - nv>> \o RunFrom(g, nv, (p % Len(g)) + 1, left - 1)

CyclicRun(g, nv, k) ==
    LET p == ListIndex(g, k)
    IN RunFrom(g, nv, (p % Len(g)) + 1, Len(g) - 1)

\* The separators in the order the genome holds them, read cyclically from 0.
SeparatorOrder(g, nv) == SelectSeq(IndShift(g), LAMBDA x : x < nv)
SeparatorsAscend(g, nv) == SeparatorOrder(g, nv) = [k \in 1..nv |-> k - 1]

\* Re-encoding of a route plan: separator k, then route k shifted up by nv.
Reencode(routes, nv) ==
    Concat([k \in 1..Len(routes) |->
                <<k - 1>> \o [p \in 1..Len(routes[k]) |-> routes[k][p] + nv]])

IsRotation(a, b) ==
    /\ Len(a) = Len(b)
    /\ \/ Len(a) = 0
       \/ \E s \in 0..(Len(a) - 1) :
            \A p \in 1..Len(a) : a[p] = b[((p - 1 + s) % Len(a)) + 1]

\* C1: for every permutation genome the decoder returns exactly V routes, and
\* route k is the run of genome values lying cyclically between separator k
\* and the next separator, in genome order, each reduced by V.
C1_RouteIsCyclicRun ==
    dec_pc = "decoded" =>
        /\ Len(routes_shift) = num_vehicles
        /\ \A k \in 0..(num_vehicles - 1) :
              routes_shift[k + 1] = CyclicRun(ind, num_vehicles, k)

\* C1 witness: three vehicles whose separators are out of order in a genome
\* that does not start at 0, with a route that wraps around the genome's end.
C1_Witness ==
    /\ dec_pc = "decoded"
    /\ num_vehicles = 3
    /\ ~SeparatorsAscend(ind, num_vehicles)
    /\ ind[1] >= num_vehicles
    /\ ind[Len(ind)] >= num_vehicles
    /\ \E k \in 1..3 : Len(routes_shift[k]) >= 2

\* C2: every target index 0..T-1 appears in exactly one decoded route, once,
\* and no decoded value lies outside 0..T-1.
C2_RoutesPartitionTargets ==
    dec_pc = "decoded" =>
        LET all == Concat(routes_shift)
            nt == NumTargetsOf(ind, num_vehicles)
        IN /\ Len(all) = nt
           /\ {all[p] : p \in 1..Len(all)} = 0..(nt - 1)

\* C2 witness: a genome starting with a target, decoded to two non-empty routes.
C2_Witness ==
    /\ dec_pc = "decoded"
    /\ ind[1] >= num_vehicles
    /\ Cardinality({k \in 1..Len(routes_shift) : routes_shift[k] # <<>>}) >= 2

\* C3 (as claimed): re-encoding decode(g) reproduces a cyclic rotation of g.
C3_RoundTripIsRotation ==
    dec_pc = "decoded" =>
        IsRotation(Reencode(routes_shift, num_vehicles), ind)

\* C3 (amended): the re-encoding is a cyclic rotation of g exactly when the
\* separators occur in g in cyclically increasing order 0,1,..,V-1 (always so
\* for V <= 2); in every case it decodes to the same routes as g.
C3_RoundTripAmended ==
    dec_pc = "decoded" =>
        LET re == Reencode(routes_shift, num_vehicles)
        IN /\ IsRotation(re, ind) <=> SeparatorsAscend(ind, num_vehicles)
           /\ num_vehicles <= 2 => SeparatorsAscend(ind, num_vehicles)
           /\ DecodeRouting(re, num_vehicles) = routes_shift

\* C3 witness: a rotated three-vehicle genome with ascending separators and
\* at least two targets has been decoded.
C3_Witness ==
    /\ dec_pc = "decoded"
    /\ num_vehicles = 3
    /\ ind[1] # 0
    /\ SeparatorsAscend(ind, num_vehicles)
    /\ NumTargetsOf(ind, num_vehicles) >= 2
    /\ IsRotation(Reencode(routes_shift, num_vehicles), ind)

(***************************************************************************)
(* Properties of the simulator.                                            *)
(***************************************************************************)
\* the Mission as constructed, before any evaluation
FreshMission == Scenarios[scenario]

\* what a call leaves behind: how it ended, its fitness, and the event log
Outcome(w) ==
    [pc |-> w.f.pc, result |-> w.f.result, exc |-> w.f.exc, data_log |-> w.m.data_log]

\* the outcome of evaluating genome g alone on the Mission as constructed
AloneOutcome(g) == Outcome(TraverseRoutes(FreshMission, g))

CatalogRaans(m) == [t \in 1..Len(m.targets) |-> m.targets[t].orbit_mean[3]]
WorkingRaans(m) == [t \in 1..Len(m.targets) |-> m.target_raans[t]]

\* the first route walk of a call is about to read the working RAANs
AtFirstWalk(f) == f.pc = "route" /\ f.serv_ind = 0 /\ f.i = 0

\* C4: a finished evaluation has the fitness and the event log of the same
\* genome evaluated alone on the Mission as constructed, whatever was
\* evaluated before, and every evaluation starts its first route walk with
\* each target's working RAAN at the target's catalog RAAN.
C4_EvaluationIsSideEffectFree ==
    /\ Finished(frames[1]) =>
            Outcome([m |-> mission, f |-> frames[1]]) = AloneOutcome(frames[1].ind)
    /\ AtFirstWalk(frames[1]) => WorkingRaans(mission) = CatalogRaans(mission)

\* C5: when the steps of two evaluations on one Mission are interleaved,
\* each evaluation returns with the fitness and the event log it has when
\* it is run alone.
C5_InterleavedAsAlone ==
    [][\A e \in Evaluators :
          (~Finished(frames[e]) /\ Finished(frames'[e])) =>
              Outcome([m |-> mission', f |-> frames'[e]]) = AloneOutcome(frames'[e].ind)]_vars

\* C6: the vehicles of the Mission (masses, propellant, refuel counts, the
\* Mothership's module list) are at every step of every evaluation the
\* vehicles the Mission was constructed with.
C6_TemplatesNeverWritten == mission.servicers = FreshMission.servicers

\* a second evaluation has returned on a Mission whose Mothership handed a
\* target to a module in that evaluation
C6_Witness ==
    /\ calls = 2
    /\ frames[1].pc = "done"
    /\ \E k \in 1..Len(mission.servicers) :
          /\ IsMothership(mission.servicers[k])
          /\ frames[1].score_list[k] > 0
          /\ Len(mission.data_log[mission.servicers[k].modules[1].name]) = 2

\* C7: no evaluation ends by raising an exception.
C7_NoExceptionEscapes == \A e \in Evaluators : frames[e].pc # "raised"

\* the entries of servicer k's log that satisfy a test
CapturesOf(m, k) ==
    {p \in 1..Len(m.data_log[m.servicers[k].name]) :
        m.data_log[m.servicers[k].name][p].captured # NONE}
ReleasesOf(m, k) ==
    {p \in 1..Len(m.data_log[m.servicers[k].name]) :
        m.data_log[m.servicers[k].name][p].released # NONE}

\* the scores of the targets servicer k's log records as captured
CapturedScores(m, k) ==
    {m.targets[m.data_log[m.servicers[k].name][p].captured + 1].score :
        p \in CapturesOf(m, k)}

\* C8: a Picker captures and disposes of at most one target in an
\* evaluation: while it is still walking its route it has captured nothing
\* and holds no credit, and the credit of its walk is that of its one
\* captured target, or none.
C8_PickerCapturesAtMostOne ==
    \A k \in 1..Len(mission.servicers) :
        (IsPicker(mission.servicers[k]) /\ mission.servicers[k].name \in DOMAIN mission.data_log)
        => /\ Cardinality(CapturesOf(mission, k)) <= 1
           /\ Cardinality(ReleasesOf(mission, k)) <= 1
           /\ (frames[1].pc = "route" /\ frames[1].serv_ind + 1 = k)
                 => /\ CapturesOf(mission, k) = {}
                    /\ frames[1].vehicle_risk_reduction = 0
           /\ (frames[1].pc \in {"servicer", "wrap", "final", "done"}
                 /\ k <= Len(frames[1].score_list))
                 => frames[1].score_list[k] \in {0} \cup CapturedScores(mission, k)

\* a Picker has captured the first target of a route of three and the
\* evaluation has returned
C8_Witness ==
    /\ frames[1].pc = "done"
    /\ \E k \in 1..Len(mission.servicers) :
          /\ IsPicker(mission.servicers[k])
          /\ Len(frames[1].routes[k]) = 3
          /\ Cardinality(CapturesOf(mission, k)) = 1
          /\ \E p \in CapturesOf(mission, k) :
                mission.data_log[mission.servicers[k].name][p].captured
                    = frames[1].routes[k][1]
          /\ frames[1].score_list[k] > 0

\* the risk an evaluation has remediated so far
RiskRemediatedBy(f) == SumSeq(f.score_list) + f.vehicle_risk_reduction

\* C9: an evaluation whose routes remediate no risk returns exactly the
\* floor fitness; it does not end in an error.
C9_ZeroRiskReturnsFloor ==
    (Finished(frames[1]) /\ RiskRemediatedBy(frames[1]) = 0)
        => (frames[1].pc = "done" /\ frames[1].result = FLOOR_FITNESS)

HasEmptyRoute(f) == \E k \in 1..Len(f.routes) : Len(f.routes[k]) = 0

\* C10: on a Mission constructed with no_route False, an evaluation of a
\* genome that decodes to an empty route has returned the floor fitness as
\* soon as it has begun.
C10_EmptyRouteGivesFloor ==
    (mission.no_route = FALSE /\ frames[1].pc # "idle" /\ HasEmptyRoute(frames[1]))
        => (frames[1].pc = "done" /\ frames[1].result = FLOOR_FITNESS)

\* such an evaluation has returned, for a genome whose other route would
\* score above the floor were empty routes allowed
C10_Witness ==
    /\ mission.no_route = FALSE
    /\ frames[1].pc = "done"
    /\ HasEmptyRoute(frames[1])
    /\ TraverseRoutes([FreshMission EXCEPT !.no_route = TRUE], frames[1].ind).f.result
          > FLOOR_FITNESS

(***************************************************************************)
(* Properties of the optimizer.                                            *)
(***************************************************************************)
Running == optimizer.pc \notin {"off", "constructed"}

BestEver == optimizer.hof[1]

\* C11: over the generations of one optimize() run the fitness of the
\* retained best-ever individual, hall-of-fame entry 0, never decreases.
C11_BestEverNeverDecreases ==
    [][(Running /\ Len(optimizer.hof) > 0)
          => /\ Len(optimizer'.hof) > 0
             /\ optimizer'.hof[1].fitness >= BestEver.fitness]_vars

\* a generation whose best individual is worse than the retained one was
\* put into the hall of fame
C11_Witness ==
    /\ optimizer.pc = "head"
    /\ Len(optimizer.hof) > 1
    /\ SelBest(optimizer.pop).fitness < BestEver.fitness

\* C12: after every generation the retained best-ever individual is at
\* least as fit as every individual that was a member of the population
\* before, the initial population included.  At the end of a generation
\* optimizer.pop still is the population the generation started from.
C12_BestOfHistoryRetained ==
    [][(optimizer.pc = "replace" /\ optimizer'.pc = "head")
          => \A p \in 1..Len(optimizer.pop) :
                 optimizer'.hof[1].fitness >= optimizer.pop[p].fitness]_vars

IsPermutation(genes, size) ==
    /\ Len(genes) = size
    /\ SeqToSet(genes) = 0..(size - 1)

GenomesHeld == SeqToSet(optimizer.pop) \cup SeqToSet(optimizer.offspring)

\* C13: every individual of the population, at initialisation and after
\* selection, crossover and mutation, is a permutation of
\* 0..num_targets+num_vehicles-1, and decoding it gives one route for
\* every vehicle.
C13_IndividualsArePermutations ==
    Running =>
        \A individual \in GenomesHeld :
            /\ IsPermutation(individual.genes, optimizer.ind_size)
            /\ Len(DecodeRouting(individual.genes, GaConfig.num_vehicles))
                   = GaConfig.num_vehicles

\* variation has made a genome that the population did not hold
C13_Witness ==
    /\ optimizer.pc = "replace"
    /\ \E p \in 1..Len(optimizer.offspring) :
           /\ ~optimizer.offspring[p].valid
           /\ \A q \in 1..Len(optimizer.pop) :
                  optimizer.pop[q].genes # optimizer.offspring[p].genes

\* C14: optimize() never stops before num_gens generations have been run,
\* and from then on it stops at the first loop head at which the change of
\* the average fitness against the trailing generations is below 1 percent.
C14_StopsAtFirstConvergedGeneration ==
    [][(optimizer.pc = "head" /\ optimizer'.pc # "head")
          => (optimizer'.pc = "done"
                <=> StopTestFromNumGens(optimizer.gen_iter, optimizer.num_gens,
                                        optimizer.perfs))]_vars

\* C18: after optimize() has returned, best_performance holds the best
\* fitness found in the run.
C18_BestPerformanceIsBestFitness ==
    optimizer.pc = "done" => optimizer.best_performance = BestEver.fitness

(***************************************************************************)
(* Further properties of the simulator.                                    *)
(***************************************************************************)
\* C15: a weight tuple of the wrong arity is rejected when the Mission is
\* constructed, so no fitness evaluation ever runs on such a Mission.
C15_WrongArityNeverEvaluated ==
    Len(mission.weights) # 4 => calls = 0

\* C16: equal precession rates at the two ends of a leg are reported as a
\* fatal error of the leg: no Inf or NaN phasing wait flows on into the
\* elapsed time of the walk or into the fitness it returns.
C16_NoNanFlowsOn ==
    /\ frames[1].estimated_tof # NAN
    /\ frames[1].vehicle_tof # NAN
    /\ frames[1].pc = "done" => frames[1].result # NAN

\* what the Mission holds of an evaluation that produced nothing
NothingLogged ==
    /\ \A name \in DOMAIN mission.data_log : mission.data_log[name] = <<>>
    /\ \A k \in 1..Len(mission.vehicle_used) : mission.vehicle_used[k] = 0
    /\ mission.vehicle_mass = 0
    /\ mission.raw_metrics = EmptyRawMetrics

\* C17: on every return path the event log, the raw metrics and the
\* vehicle-usage flags of the Mission hold only what that evaluation
\* produced; an evaluation that returned the floor fitness for an empty
\* route visited nothing, so it leaves nothing logged.
C17_ResultIsOfThisEvaluation ==
    (mission.no_route = FALSE /\ frames[1].pc = "done" /\ HasEmptyRoute(frames[1]))
        => NothingLogged

\* the servicer and the target of the pass of the route loop that is next
ServicerAt(f) == mission.servicers[f.serv_ind + 1]
TargetAt(f) == mission.targets[f.routes[f.serv_ind + 1][f.i + 1] + 1]

\* the propellant the transfer to that target costs, as the pass computes it
PropMassTo(f) ==
    CalcTransferCosts(mission, f.serv_loc, <<0, 0, 0>>,
        <<TargetAt(f).orbit_mean[1], TargetAt(f).orbit_mean[2],
          mission.target_raans[f.routes[f.serv_ind + 1][f.i + 1] + 1]>>,
        TargetAt(f).orbit_unc,
        ServicerAt(f).dry_mass + f.usable_prop + SumSeq(f.module_masses),
        ServicerAt(f).thrust, ServicerAt(f).isp).prop_mass

\* the entries a pass of the route loop adds to the servicer's log: a
\* refuel is logged first, the phasing wait after it
EntriesOfPass(f) ==
    SubSeq(mission'.data_log[ServicerAt(f).name],
           Len(mission.data_log[ServicerAt(f).name]) + 1,
           Len(mission'.data_log[ServicerAt(f).name]))

RefuelsInRange ==
    frames[1].pc \in {"route", "wrap"} =>
        /\ frames[1].refuels \in 0..ServicerAt(frames[1]).num_refuels
        /\ IsPicker(ServicerAt(frames[1])) => frames[1].refuels = 0

RefuelIsByTheRule ==
    (frames[1].pc = "route" /\ frames'[1].refuels # frames[1].refuels) =>
        /\ frames[1].refuels > 0
        /\ PropMassTo(frames[1]) <= ServicerAt(frames[1]).prop_mass
        /\ frames'[1].refuels = frames[1].refuels - 1
        /\ EntriesOfPass(frames[1])[1].prop_mass = ServicerAt(frames[1]).prop_mass
        /\ EntriesOfPass(frames[1])[1].refuels = frames[1].refuels - 1
        /\ Len(EntriesOfPass(frames[1])) > 1 =>
               EntriesOfPass(frames[1])[2].prop_mass = ServicerAt(frames[1]).prop_mass

\* C20: a refuel happens only with refuels remaining and a target within
\* reach of a full tank; it sets the usable propellant to the vehicle's
\* propellant mass and takes exactly one refuel, so the refuels remaining
\* stay within 0..num_refuels throughout every route, and are 0 for a Picker.
C20_RefuelRule == []RefuelsInRange /\ [][RefuelIsByTheRule]_vars

\* a Shuttle has refuelled on its route
C20_Witness ==
    /\ frames[1].pc \in {"route", "wrap"}
    /\ ~IsPicker(ServicerAt(frames[1]))
    /\ frames[1].refuels < ServicerAt(frames[1]).num_refuels

(***************************************************************************)
(* Properties of the sampler.                                              *)
(***************************************************************************)
\* the transfer between the mean elements, computed once
MeanElementCost(orbit1_mean, orbit2_mean, mass, thrust, isp) ==
    IF isp > ISP_SPLIT
    THEN LowThrustTransfer(orbit1_mean[1], orbit2_mean[1], orbit1_mean[2], orbit2_mean[2],
                           mass, isp, thrust)
    ELSE ImpulseTransfer(orbit1_mean[1], orbit2_mean[1], orbit1_mean[2], orbit2_mean[2],
                         mass, isp)

SamplerMeanCost ==
    MeanElementCost(sampler.orbit1_mean, sampler.orbit2_mean, sampler.mass,
                    sampler.thrust, sampler.isp)

ZeroUncertainty ==
    sampler.orbit1_unc = <<0, 0, 0>> /\ sampler.orbit2_unc = <<0, 0, 0>>

\* C19: with every standard deviation of both endpoints 0 the sampled
\* delta-v, propellant and time of flight are those of the mean elements,
\* for every sample count and every conservatism.
C19_ZeroUncertaintyIsDeterministic ==
    (sampler.pc = "sampled" /\ ZeroUncertainty) =>
        /\ sampler.cost.exc = "none"
        /\ sampler.cost.transfer_dv = SamplerMeanCost[1]
        /\ sampler.cost.prop_mass = SamplerMeanCost[2]
        /\ sampler.cost.transfer_tof = SamplerMeanCost[3]

\* several samples with different draws and a conservatism above zero gave
\* the cost of a transfer that is not free
C19_Witness ==
    /\ sampler.pc = "sampled"
    /\ ZeroUncertainty
    /\ sampler.monte_carlo_size > 1
    /\ sampler.draws[1] # sampler.draws[2]
    /\ sampler.conservatism > 0
    /\ sampler.cost.transfer_dv > 0
    /\ sampler.cost.prop_mass > 0

(***************************************************************************)
(* Properties of the route walk.                                           *)
(***************************************************************************)
RouteAt(f) == f.routes[f.serv_ind + 1]

\* the target of the next pass is out of reach of a full tank
Unreachable(f) == PropMassTo(f) > ServicerAt(f).prop_mass

\* what a pass that does nothing leaves as it was
PassLeavesAll(f) ==
    /\ mission' = mission
    /\ frames'[1].exc = "none"
    /\ frames'[1].usable_prop = f.usable_prop
    /\ frames'[1].refuels = f.refuels
    /\ frames'[1].serv_loc = f.serv_loc
    /\ frames'[1].vehicle_tof = f.vehicle_tof
    /\ frames'[1].estimated_tof = f.estimated_tof
    /\ frames'[1].vehicle_risk_reduction = f.vehicle_risk_reduction
    /\ frames'[1].module_masses = f.module_masses

\* C21: a target out of reach of a full tank is skipped without error and
\* the route goes on with the next target; the skip leaves usable
\* propellant, refuel count, orbit, elapsed time, credited risk and the
\* event log as they were.
C21_UnreachableTargetIsSkipped ==
    [][(frames[1].pc = "route" /\ Unreachable(frames[1]))
          => /\ PassLeavesAll(frames[1])
             /\ frames'[1].i = frames[1].i + 1
             /\ frames'[1].pc = IF frames[1].i + 1 < Len(RouteAt(frames[1]))
                                THEN "route" ELSE "wrap"]_vars

\* the walk stands at a later target of a route after it has skipped the
\* target before, with nothing logged but the deployment
C21_Witness ==
    /\ frames[1].pc = "route"
    /\ frames[1].i > 0
    /\ Len(mission.data_log[ServicerAt(frames[1]).name]) = 1
    /\ Unreachable([frames[1] EXCEPT !.i = @ - 1])

\* the safety margin of lines 201-205 and the test it feeds
MarginOf(f) ==
    IF IsMothership(ServicerAt(f)) THEN 3
    ELSE 3 + CeilDiv(TargetAt(f).mass, ServicerAt(f).wet_mass)
TankShort(f) == MarginOf(f) * PropMassTo(f) > f.usable_prop

\* the next pass meets a target within reach of a full tank with a tank
\* that is short of it and no refuel left
OutOfRefuels(f) ==
    /\ f.pc = "route"
    /\ ~Unreachable(f)
    /\ TankShort(f)
    /\ f.refuels = 0

\* the rest of the call from the state it stands in
RestOfCall == RunToEnd([m |-> mission, f |-> frames[1]])

\* every vehicle's route is closed and a fitness comes back
AllRoutesClosed(w) ==
    /\ w.f.pc = "done"
    /\ Len(w.f.score_list) = Len(mission.servicers)
    /\ w.f.result >= FLOOR_FITNESS

\* the pass ends the route where it stands, without attempting the target
RouteEndsHere(f) ==
    /\ PassLeavesAll(f)
    /\ frames'[1].i = f.i
    /\ frames'[1].pc = "wrap"

\* C22: whenever the tank is short (with margin) of a target that a full
\* tank reaches and no refuel remains, the route ends there: nothing is
\* spent or logged, no later target of the route is attempted, the other
\* vehicles are still simulated and a fitness is returned.
C22_OutOfRefuelsEndsRoute ==
    /\ [](OutOfRefuels(frames[1]) => AllRoutesClosed(RestOfCall))
    /\ [][OutOfRefuels(frames[1]) => RouteEndsHere(frames[1])]_vars

\* the vehicle's estimated time has passed the year limit
PastYearLimit(f) == NanLess(mission.year_limit * YEAR_DAYS, f.estimated_tof)

\* the pass has taken the estimated time past the year limit
PassGoesPastLimit ==
    /\ frames[1].pc = "route"
    /\ ~PastYearLimit(frames[1])
    /\ PastYearLimit(frames'[1])

ModulesUsed(m, k) ==
    {j \in 1..Len(m.servicers[k].modules) :
        Len(m.data_log[m.servicers[k].modules[j].name]) > 0}

\* a module is dispatched once: its log holds the separation and the deorbit
DispatchedOnce(m, k) ==
    \A j \in ModulesUsed(m, k) : Len(m.data_log[m.servicers[k].modules[j].name]) = 2

\* C24: on a Mothership route every capture consumes exactly one module
\* that no earlier capture of the evaluation has used, so there are never
\* more captures than modules, and once every module is consumed no
\* further target of the route is attempted.
C24_OneFreshModulePerCapture ==
    \A k \in 1..Len(mission.servicers) :
        (IsMothership(mission.servicers[k])
           /\ mission.servicers[k].name \in DOMAIN mission.data_log) =>
            /\ Cardinality(CapturesOf(mission, k)) = Cardinality(ModulesUsed(mission, k))
            /\ DispatchedOnce(mission, k)
            /\ Cardinality(CapturesOf(mission, k)) <= Len(mission.servicers[k].modules)
            /\ (frames[1].pc = "route" /\ frames[1].serv_ind + 1 = k)
                  => Cardinality(ModulesUsed(mission, k)) < Len(mission.servicers[k].modules)

(***************************************************************************)
(* Properties of the choice of the transfer model.                         *)
(***************************************************************************)
\* C25: for every specific impulse exactly one transfer model is selected
\* and a triple is returned: low thrust above 500 s, impulsive below, and
\* the transfer-cost sampler and the altitude-drop routine choose the same
\* model for the same isp, 500 s included.
C25_OneModelForEveryIsp ==
    sampler.pc = "dropped" =>
        /\ sampler.cost.exc = "none"
        /\ sampler.model \in {"low_thrust", "impulse"}
        /\ sampler.isp > ISP_SPLIT => sampler.model = "low_thrust"
        /\ sampler.isp < ISP_SPLIT => sampler.model = "impulse"
        /\ sampler.drop_model = sampler.model

(***************************************************************************)
(* Properties of the disposal.                                             *)
(***************************************************************************)
\* the vehicle that takes the target of the pass down
DeorbiterAt(f) ==
    IF IsMothership(ServicerAt(f)) THEN ServicerAt(f).modules[f.i + 1] ELSE ServicerAt(f)

\* the entries the pass has added to the deorbiter's log that release a target
ReleasesOfPass(f) ==
    IF IsMothership(ServicerAt(f))
    THEN IF f.i + 1 > Len(ServicerAt(f).modules) THEN {}
         ELSE {e \in SeqToSet(mission'.data_log[DeorbiterAt(f).name]) : e.released # NONE}
    ELSE {e \in SeqToSet(EntriesOfPass(f)) : e.released # NONE}

\* candidate c is within the deorbiter's propellant from the target's orbit
Reachable(c, f) ==
    AltDropTransfer(TargetAt(f).orbit_mean[1], R_E + AltCandidates[c],
                    DeorbiterAt(f).wet_mass + TargetAt(f).mass,
                    DeorbiterAt(f).thrust, DeorbiterAt(f).isp)[2] < DeorbiterAt(f).prop_mass

LowestReachable(a, f) ==
    \E c \in 1..Len(AltCandidates) :
        /\ a = R_E + AltCandidates[c]
        /\ Reachable(c, f)
        /\ \A d \in 1..(c - 1) : ~Reachable(d, f)

\* the pass is one of a Picker or a Mothership and ends without an exception
PassOfDeorbiter ==
    /\ frames[1].pc = "route"
    /\ ~IsShuttle(ServicerAt(frames[1]))
    /\ frames'[1].exc = "none"

\* C26: the disposal altitude chosen for a deorbit is the lowest of the
\* candidates 0, 100, ..., 500 km that the deorbiter's propellant reaches:
\* it is reachable, no lower candidate is, and a target is credited as
\* deorbited only when such an altitude exists.
C26_DisposalIsLowestReachable ==
    [][PassOfDeorbiter =>
          /\ \A e \in ReleasesOfPass(frames[1]) : LowestReachable(e.a, frames[1])
          /\ frames'[1].vehicle_risk_reduction # frames[1].vehicle_risk_reduction
                => \E e \in ReleasesOfPass(frames[1]) : LowestReachable(e.a, frames[1])]_vars

(***************************************************************************)
(* Properties of the generation loop.                                      *)
(***************************************************************************)
\* the individual carries the fitness of the genome it holds
FitnessIsCurrent(individual) ==
    individual.valid /\ individual.fitness = FitnessFunc(individual.genes)

PopulationEvaluated == \A p \in 1..Len(optimizer.pop) : FitnessIsCurrent(optimizer.pop[p])

\* C27: after the initial evaluation and at the end of every generation
\* every individual of the population has a valid fitness, the value of
\* the fitness function for the genome it holds now; this stays so while
\* the clones are mated and mutated, until the evaluated offspring
\* replace the population.
C27_PopulationFitnessIsCurrent ==
    optimizer.pc \in {"head", "select", "mate", "mutate", "replace", "done"}
        => PopulationEvaluated

\* the second generation has ended with an individual fitter than the best
\* of the first: selection and cloning cannot have made it, crossover or
\* mutation did and it was evaluated
C27_Witness ==
    /\ optimizer.pc = "head"
    /\ optimizer.gen_iter = 2
    /\ \E p \in 1..Len(optimizer.pop), h \in 1..Len(optimizer.hof) :
          optimizer.hof[h].fitness < optimizer.pop[p].fitness

\* C28: every call of optimize() returns: the generation loop ends after
\* finitely many generations, for every fitness function and every
\* sequence of random draws.
C28_OptimizeReturns == <>(optimizer.pc = "done")

(***************************************************************************)
(* Properties of the propellant and the time accounts.                     *)
(***************************************************************************)
\* C29: a vehicle's usable propellant is never negative: every logged
\* event of every evaluation shows a remaining propellant of at least 0.
C29_PropellantNeverNegative ==
    /\ \A e \in Evaluators : frames[e].usable_prop >= 0
    /\ \A name \in DOMAIN mission.data_log :
          \A p \in 1..Len(mission.data_log[name]) : mission.data_log[name][p].prop_mass >= 0

====
